---- MODULE Spec2Model ----
(***************************************************************************)
(* State-machine model of the image-backed SFFS engine                     *)
(* (Source/Core/Core/IOS/FS/ImageBackend: FS.cpp, File.cpp, LowLevel.cpp,  *)
(* Util.cpp, SFFS.cpp).                                                    *)
(*                                                                         *)
(* The engine is modelled functionally: every C++ method is an operator    *)
(* that takes the engine state as a record `s` and returns the state after *)
(* the call, with the result code in `rc` and the returned value in `val`. *)
(* One action per public operation applies the operator to the current     *)
(* variables.  The on-media layout is scaled down (a cluster holds         *)
(* ClusterSize bytes, the FAT has FatSize entries, ...); the sentinels     *)
(* keep their 16-bit values so that the code's `x >= size()` tests behave  *)
(* as in the source.                                                       *)
(***************************************************************************)
EXTENDS Integers, Sequences, FiniteSets, TLC

\* ------------------------------------------------------------------ layout
\* Scaled layout (the image has 0x8000 clusters of 0x4000 bytes, 64 boot
\* clusters, 16 superblock copies, 6143 FST entries and 16 handles).
ClusterSize == 2
FirstDataCluster == 3
NumDataClusters == 3
FstSize == 5
NumHandles == 2
NumSuperblocks == 4
\* Bounds on the number of public calls of one run, per specification.
MaxOps == 5
MaxOpsRW == 7
MaxOpsBoot == 3
MaxOpsNames == 4
MaxOpsSeek == 6
MaxOpsPerm == 4
MaxOpsIO == 6
MaxOpsDisk == 8
MaxOpsWrap == 4
MaxOpsRetry == 3
MaxOpsWear == 3
MaxOpsMove == 5
\* Frames of FileHandle::operator= the stack holds before it overflows.
MaxStack == 3
\* Bounds on the disk images a run starts from: the highest version of a stored
\* copy and the number of slots that hold one.
MaxBootVersion == 2
BootSlots == 3
\* How far below the largest version the stored versions of an old image start.
WrapDistance == 2

CLUSTER_DATA_SIZE == ClusterSize
SUPERBLOCK_START_CLUSTER == FirstDataCluster + NumDataClusters
FatSize == SUPERBLOCK_START_CLUSTER + 1
NUMBER_OF_SUPERBLOCKS == NumSuperblocks

CLUSTER_LAST_IN_CHAIN == 65531
CLUSTER_RESERVED == 65532
CLUSTER_BAD_BLOCK == 65533
CLUSTER_UNUSED == 65534
NoIndex == 65535
\* 32-bit unsigned arithmetic wraps at U32.  TLC's integers are 32-bit signed,
\* so the word is modelled 30 bits wide; 0xffffffff is U32 - 1.
U32 == 1073741824
NoFd == U32 - 1
NameLen == 12
MaxPathLen == 64
MaxDirDepth == 8

Slash == 47
\* An indeterminate byte (never-written buffer or flash contents).
Indet == 255

FatIdx == 0 .. (FatSize - 1)
FstIdx == 0 .. (FstSize - 1)
Fds == 0 .. (NumHandles - 1)
Slots == 0 .. (NUMBER_OF_SUPERBLOCKS - 1)

Min(a, b) == IF a < b THEN a ELSE b
Max(a, b) == IF a < b THEN b ELSE a

\* ------------------------------------------------------------ result codes
Success == "Success"
Invalid == "Invalid"
AccessDenied == "AccessDenied"
SuperblockWriteFailed == "SuperblockWriteFailed"
SuperblockInitFailed == "SuperblockInitFailed"
NotFound == "NotFound"
AlreadyExists == "AlreadyExists"
TooManyPathComponents == "TooManyPathComponents"
InUse == "InUse"
BadBlock == "BadBlock"
NoFreeHandle == "NoFreeHandle"
NoFreeSpace == "NoFreeSpace"
FstFull == "FstFull"
FileNotEmpty == "FileNotEmpty"
CheckFailed == "CheckFailed"
\* Not a result code: the call ran into undefined behaviour and the process died.
Crashed == "Crashed"

\* Access modes (FS::Mode).
ModeNone == 0
ModeRead == 1
ModeWrite == 2
ModeReadWrite == 3

\* ------------------------------------------------------------------- SFFS
\* FstEntry{}: a value-initialised entry.
FstEntryZero ==
  [name |-> <<>>, mode |-> 0, attr |-> 0, sub |-> 0, sib |-> 0, size |-> 0,
   uid |-> 0, gid |-> 0, x3 |-> 0]

\* Superblock{}: a value-initialised superblock (magic is not SFFS).
SuperblockZero ==
  [magic |-> FALSE, version |-> 0,
   fat |-> [c \in FatIdx |-> 0], fst |-> [i \in FstIdx |-> FstEntryZero]]

\* FstEntry::SetName: the first 12 bytes of the new name, zero padded.
SetName(new_name) == SubSeq(new_name, 1, Min(Len(new_name), NameLen))

\* FstEntry::GetName: the stored bytes up to the first NUL.
GetName(e) == e.name

IsFile(e) == (e.mode % 4) = 1
IsDirectory(e) == (e.mode % 4) = 2
GetOwnerMode(e) == (e.mode \div 64) % 4
GetGroupMode(e) == (e.mode \div 16) % 4
GetOtherMode(e) == (e.mode \div 4) % 4
\* FstEntry::SetAccessMode: keeps the type bits, replaces the access bits.
SetAccessMode(e, owner, group, other) ==
  [e EXCEPT !.mode = (e.mode % 4) + 64 * owner + 16 * group + 4 * other]

\* bitwise (requested & file_mode) == requested on 2-bit modes
ModeSubset(requested, file_mode) ==
  /\ (requested % 2 = 1) => (file_mode % 2 = 1)
  /\ (requested \div 2 = 1) => (file_mode \div 2 = 1)

\* A HasPermission that never looks at the group bits.
HasPermissionNoGroup(e, uid, gid, requested_mode) ==
  uid = 0 \/ ModeSubset(requested_mode, IF e.uid = uid THEN GetOwnerMode(e) ELSE GetOtherMode(e))

HasPermission(e, uid, gid, requested_mode) ==
  IF uid = 0 THEN TRUE
  ELSE LET file_mode == IF e.uid = uid THEN GetOwnerMode(e)
                        ELSE IF e.gid = gid THEN GetGroupMode(e)
                        ELSE GetOtherMode(e)
       IN  ModeSubset(requested_mode, file_mode)

\* --------------------------------------------------------------- strings
\* position of the last '/' of a path (0 when there is none)
RECURSIVE LastSlash(_, _)
LastSlash(path, i) ==
  IF i = 0 THEN 0
  ELSE IF path[i] = Slash THEN i ELSE LastSlash(path, i - 1)

IsValidNonRootPath(path) ==
  /\ Len(path) > 1
  /\ Len(path) <= MaxPathLen
  /\ path[1] = Slash
  /\ path[Len(path)] # Slash

\* SplitPath: {path.substr(0, last_separator + 1), path.substr(last_separator + 1)}
SplitPath(path) ==
  LET k == LastSlash(path, Len(path))
  IN  [parent |-> SubSeq(path, 1, k), file_name |-> SubSeq(path, k + 1, Len(path))]

\* SplitString(str, '/'): std::getline pieces; a trailing delimiter adds no piece.
RECURSIVE SplitString(_, _, _)
SplitString(str, i, cur) ==
  IF i > Len(str) THEN (IF cur = <<>> THEN <<>> ELSE <<cur>>)
  ELSE IF str[i] = Slash THEN <<cur>> \o SplitString(str, i + 1, <<>>)
  ELSE SplitString(str, i + 1, Append(cur, str[i]))

CountSlashes(path) == Cardinality({i \in 1 .. Len(path) : path[i] = Slash})

\* ------------------------------------------------------------ key store
\* AES with the fixed content key: a bijection on bytes, undone by Decrypt.
Encrypt(data) == [i \in 1 .. Len(data) |-> (data[i] + 77) % 256]
Decrypt(data) == [i \in 1 .. Len(data) |-> (data[i] + 179) % 256]

\* HMAC-SHA1 over salt || data, modelled as the injective pair (no collisions).
NoHmac == [fst_index |-> 0 - 1, chain_index |-> 0, uid |-> 0, name |-> <<>>,
           x3 |-> 0, data |-> <<>>]

GenerateHmacForData(superblock, cluster_data, fst_index, chain_index) ==
  LET entry == superblock.fst[fst_index]
  IN  [fst_index |-> fst_index, chain_index |-> chain_index, uid |-> entry.uid,
       name |-> entry.name, x3 |-> entry.x3, data |-> cluster_data]

\* first cluster of superblock copy `index` (the salt of its HMAC)
SuperblockCluster(index) == SUPERBLOCK_START_CLUSTER + 16 * index

GenerateHmacForSuperblock(superblock, index) ==
  [starting_cluster |-> SuperblockCluster(index), sb |-> superblock]

NoSbHmac == [starting_cluster |-> 0 - 1, sb |-> SuperblockZero]

\* ------------------------------------------------------------ engine state
VARIABLES
  m_nand,                \* backing file, data area: cluster -> [data, hmac]
  m_nand_sb,             \* backing file, superblock area: copy -> [sb, hmac]
  m_superblock_set,      \* m_superblock != nullptr
  m_superblock,          \* *m_superblock
  m_superblock_index,
  m_handles,
  m_cache_fd,
  m_cache_chain_index,
  m_cache_data,
  m_cache_for_write,
  writes_left,           \* cluster writes the backing file still takes before its I/O fails
  bad_slots,             \* superblock copies of the backing file that cannot be written
  file_handles,          \* the caller's FileHandle objects: object -> [alive, m_fs, m_fd]
  move_call,             \* the call of FileHandle::operator=(FileHandle&&) in progress
  constructed,           \* the constructor has run
  crashed,               \* the process died of undefined behaviour
  ret,                   \* the last public call and its result code
  nops,                  \* number of public calls so far
  limit                  \* number of public calls this run may make

vars == <<m_nand, m_nand_sb, m_superblock_set, m_superblock, m_superblock_index,
          m_handles, m_cache_fd, m_cache_chain_index, m_cache_data,
          m_cache_for_write, writes_left, bad_slots, file_handles, move_call,
          constructed, crashed, ret, nops, limit>>

\* Handle{}
HandleZero ==
  [opened |-> FALSE, fst_index |-> NoIndex, gid |-> 0, uid |-> 0, mode |-> ModeNone,
   file_offset |-> 0, file_size |-> 0, superblock_flush_needed |-> FALSE]

BlankCluster == [data |-> [i \in 1 .. CLUSTER_DATA_SIZE |-> Indet], hmac |-> NoHmac]
BlankSlot == [sb |-> SuperblockZero, hmac |-> NoSbHmac]

\* The engine as one record; `ub` is set when a call runs into undefined behaviour.
Cur ==
  [m_nand |-> m_nand, m_nand_sb |-> m_nand_sb, m_superblock_set |-> m_superblock_set,
   m_superblock |-> m_superblock, m_superblock_index |-> m_superblock_index,
   m_handles |-> m_handles, m_cache_fd |-> m_cache_fd,
   m_cache_chain_index |-> m_cache_chain_index, m_cache_data |-> m_cache_data,
   m_cache_for_write |-> m_cache_for_write, writes_left |-> writes_left,
   bad_slots |-> bad_slots,
   crashed |-> crashed, ub |-> FALSE]

\* The backing file (File::IOFile m_nand): Seek, ReadBytes and WriteBytes fail once
\* writes_left is 0; NoFailure stands for a file that never fails.
NoFailure == 0 - 1
IoFails(s) == s.writes_left = 0
IoUsed(s) == IF s.writes_left = NoFailure THEN s ELSE [s EXCEPT !.writes_left = @ - 1]
\* WriteBytes into the clusters of superblock copy `index` fails.
SlotFails(s, index) == IoFails(s) \/ index \in s.bad_slots

\* What a call returns: the engine afterwards, the result code and the value.
Res(s, rc, val) == [s |-> s, rc |-> rc, val |-> val]

\* Outcomes of undefined behaviour: the process dies, or the read yields garbage.
UBNone == [crash |-> FALSE, cluster |-> 0, fst_index |-> 0, file_size |-> 0]
UBOutcomes ==
  {[crash |-> TRUE, cluster |-> 0, fst_index |-> 0, file_size |-> 0]} \cup
  [crash : {FALSE}, cluster : {0, FirstDataCluster, NoIndex},
   fst_index : {1, NoIndex}, file_size : {0, 1}]
Die(s) == [s EXCEPT !.crashed = TRUE, !.ub = TRUE]

\* ------------------------------------------------------------ LowLevel.cpp
\* ReadCluster: the decrypted data and the HMAC of the spare area.
ReadCluster(s, cluster) ==
  IF cluster >= FatSize THEN [rc |-> Invalid, data |-> <<>>, hmac |-> NoHmac]
  ELSE IF IoFails(s) THEN [rc |-> BadBlock, data |-> <<>>, hmac |-> NoHmac]
  ELSE [rc |-> Success,
        data |-> IF cluster < SUPERBLOCK_START_CLUSTER
                 THEN Decrypt(s.m_nand[cluster].data) ELSE s.m_nand[cluster].data,
        hmac |-> s.m_nand[cluster].hmac]

\* WriteCluster: the (encrypted) data and the HMAC, written to the backing file.
WriteCluster(s, cluster, data, hmac) ==
  IF cluster >= FatSize THEN Res(s, Invalid, 0)
  ELSE IF IoFails(s) THEN Res(s, BadBlock, 0)
  ELSE Res(IoUsed([s EXCEPT !.m_nand[cluster] =
                     [data |-> IF cluster < SUPERBLOCK_START_CLUSTER
                               THEN Encrypt(data) ELSE data,
                      hmac |-> hmac]]), Success, 0)

RECURSIVE WalkChain(_, _, _)
WalkChain(fat, cluster, n) ==
  IF n = 0 THEN cluster
  ELSE IF cluster >= FatSize THEN cluster
  ELSE WalkChain(fat, fat[cluster], n - 1)

\* GetClusterForFile: the cluster at position `index` of the chain, if any.
GetClusterForFile(superblock, first_cluster, index) ==
  LET c == WalkChain(superblock.fat, first_cluster, index)
  IN  [has |-> c < FatSize, cluster |-> c]

\* ReadSuperblock + the scan loop of GetSuperblock, from copy i on.
RECURSIVE ScanSuperblocks(_, _, _)
ScanSuperblocks(s, i, highest_version) ==
  IF i = NUMBER_OF_SUPERBLOCKS THEN s
  ELSE LET superblock == s.m_nand_sb[i].sb
       IN  IF IoFails(s) \/ ~superblock.magic THEN ScanSuperblocks(s, i + 1, highest_version)
           ELSE IF superblock.version < highest_version
                THEN ScanSuperblocks(s, i + 1, highest_version)
           ELSE ScanSuperblocks([s EXCEPT !.m_superblock_index = i,
                                          !.m_superblock_set = TRUE,
                                          !.m_superblock = superblock],
                                i + 1, superblock.version)

\* GetSuperblock: val is TRUE when a superblock pointer is returned.
GetSuperblock(s) ==
  IF s.m_superblock_set THEN Res(s, Success, TRUE)
  ELSE LET Verify(t) ==
             IF ~t.m_superblock_set THEN Res(t, Success, FALSE)
             ELSE Res(t, Success,
                      /\ ~IoFails(t)
                      /\ GenerateHmacForSuperblock(t.m_superblock, t.m_superblock_index)
                           = t.m_nand_sb[t.m_superblock_index].hmac)
       IN  Verify(ScanSuperblocks(s, 0, 0))

\* A write_block that writes the copy in place instead of moving to the next slot.
WriteBlockInPlace(s) ==
  LET index == s.m_superblock_index
      hmac == GenerateHmacForSuperblock(s.m_superblock, index)
  IN  [s EXCEPT !.m_nand_sb[index] = [sb |-> s.m_superblock, hmac |-> hmac]]

\* write_block of FlushSuperblock: rotate, sign, write the 16 clusters of the copy.
WriteBlock(s) ==
  LET index == (s.m_superblock_index + 1) % NUMBER_OF_SUPERBLOCKS
      hmac == GenerateHmacForSuperblock(s.m_superblock, index)
  IN  [s EXCEPT !.m_superblock_index = index,
                !.m_nand_sb[index] = [sb |-> s.m_superblock, hmac |-> hmac]]

\* `extra` counts the further flushes that follow a version overflow.
RECURSIVE FlushSuperblock(_)
\* One extra flush too few after a version overflow.
FewerExtraVersions == NUMBER_OF_SUPERBLOCKS - 2

\* The number of flushes that follow a version overflow: 15 with the 16 copies of the
\* image, one per other copy.
ExtraVersions == NUMBER_OF_SUPERBLOCKS - 1

\* The flushes that follow a version overflow.
RECURSIVE FlushExtraVersions(_, _)
FlushExtraVersions(s, n) ==
  LET Flushed(r) == IF r.rc # Success THEN r ELSE FlushExtraVersions(r.s, n - 1)
  IN  IF n = 0 THEN Res(s, Success, 0) ELSE Flushed(FlushSuperblock(s))

\* A write_block that stays on the slot it could not write.
WriteBlockSameSlot(s) ==
  IF SlotFails(s, (s.m_superblock_index + 1) % NUMBER_OF_SUPERBLOCKS)
  THEN Res(s, BadBlock, 0)
  ELSE Res(IoUsed(WriteBlock(s)), Success, 0)

\* write_block: the next slot is chosen before its clusters are written.
WriteBlockChecked(s) ==
  LET Written(w) ==
        IF w.m_superblock.version = 0 THEN FlushExtraVersions(w, ExtraVersions) ELSE Res(w, Success, 0)
  IN  IF SlotFails(s, (s.m_superblock_index + 1) % NUMBER_OF_SUPERBLOCKS)
      THEN Res([s EXCEPT !.m_superblock_index = (@ + 1) % NUMBER_OF_SUPERBLOCKS], BadBlock, 0)
      ELSE Written(IoUsed(WriteBlock(s)))

\* The loop of FlushSuperblock: one write_block per slot until one succeeds.
RECURSIVE WriteBlockAttempts(_, _)
WriteBlockAttempts(s, i) ==
  LET Tried(r) == IF r.rc = Success THEN r ELSE WriteBlockAttempts(r.s, i + 1)
  IN  IF i = NUMBER_OF_SUPERBLOCKS THEN Res(s, SuperblockWriteFailed, 0)
      ELSE Tried(WriteBlockChecked(s))

FlushSuperblock(s) ==
  IF ~s.m_superblock_set THEN Res(s, NotFound, 0)
  ELSE WriteBlockAttempts([s EXCEPT !.m_superblock.version = (@ + 1) % U32], 0)

\* A cluster choice that ignores the FAT: the first data cluster, in use or not.
FirstClusterInPlace(fat) == FirstDataCluster

FirstUnusedCluster(fat) ==
  IF \E c \in FatIdx : fat[c] = CLUSTER_UNUSED
  THEN CHOOSE c \in FatIdx : fat[c] = CLUSTER_UNUSED /\ \A d \in 0 .. (c - 1) : fat[d] # CLUSTER_UNUSED
  ELSE FatSize

WriteFileData(s0, fst_index, source, chain_index, new_size) ==
  LET Link(w, entry, cluster, old_cluster, prev) ==
        IF chain_index # 0 /\ ~prev.has THEN Res(w, Invalid, 0)
        ELSE
        LET fat0 == w.m_superblock.fat
            fat1 == IF chain_index = 0 THEN fat0 ELSE [fat0 EXCEPT ![prev.cluster] = cluster]
            next == IF old_cluster.has THEN fat1[old_cluster.cluster]
                    ELSE CLUSTER_LAST_IN_CHAIN
            fat3 == IF old_cluster.has
                    THEN [fat1 EXCEPT ![cluster] = next, ![old_cluster.cluster] = CLUSTER_UNUSED]
                    ELSE [fat1 EXCEPT ![cluster] = next]
            sub1 == IF chain_index = 0 THEN cluster ELSE entry.sub
        IN  Res([w EXCEPT !.m_superblock.fat = fat3,
                          !.m_superblock.fst[fst_index].sub = sub1,
                          !.m_superblock.fst[fst_index].size = new_size], Success, 0)
      Written(write_result, entry, cluster) ==
        IF write_result.rc # Success THEN write_result
        ELSE Link(write_result.s, entry, cluster,
                  GetClusterForFile(write_result.s.m_superblock, entry.sub, chain_index),
                  GetClusterForFile(write_result.s.m_superblock, entry.sub, chain_index - 1))
      Allocate(s, entry, cluster) ==
        IF ~IsFile(entry) \/ new_size < entry.size THEN Res(s, Invalid, 0)
        ELSE IF cluster = FatSize THEN Res(s, NoFreeSpace, 0)
        ELSE Written(WriteCluster(s, cluster, source,
                                  GenerateHmacForData(s.m_superblock, source, fst_index,
                                                      chain_index)),
                     entry, cluster)
      WithSuperblock(g) ==
        IF ~g.val THEN Res(g.s, SuperblockInitFailed, 0)
        ELSE Allocate(g.s, g.s.m_superblock.fst[fst_index],
                      FirstUnusedCluster(g.s.m_superblock.fat))
  IN  IF fst_index >= FstSize THEN Res(s0, Invalid, 0)
      ELSE WithSuperblock(GetSuperblock(s0))

\* ReadFileData: val is the cluster's data.  Dereferencing the empty result of
\* GetClusterForFile is undefined: outcome `u`.
ReadFileData(s0, fst_index, chain_index, u) ==
  LET Verify(t, r) ==
        IF r.rc # Success THEN Res(t, r.rc, r.data)
        ELSE IF GenerateHmacForData(t.m_superblock, r.data, fst_index, chain_index) # r.hmac
        THEN Res(t, CheckFailed, r.data)
        ELSE Res(t, Success, r.data)
      Locate(s, entry, where) ==
        IF ~IsFile(entry) \/ entry.size <= chain_index * CLUSTER_DATA_SIZE
        THEN Res(s, Invalid, <<>>)
        ELSE IF ~where.has /\ u.crash THEN Res(Die(s), Crashed, <<>>)
        ELSE LET t == IF where.has THEN s ELSE [s EXCEPT !.ub = TRUE]
             IN  Verify(t, ReadCluster(t, IF where.has THEN where.cluster ELSE u.cluster))
      WithSuperblock(g) ==
        IF ~g.val THEN Res(g.s, SuperblockInitFailed, <<>>)
        ELSE LET s == g.s
                 entry == s.m_superblock.fst[fst_index]
             IN  Locate(s, entry, GetClusterForFile(s.m_superblock, entry.sub, chain_index))
  IN  IF fst_index >= FstSize THEN Res(s0, Invalid, <<>>)
      ELSE WithSuperblock(GetSuperblock(s0))

\* ---------------------------------------------------------------- File.cpp
GetHandleFromFd(s, fd) == fd < NumHandles /\ s.m_handles[fd].opened

IsFileOpened(s, fst_index) ==
  \E fd \in Fds : s.m_handles[fd].opened /\ s.m_handles[fd].fst_index = fst_index

\* IsDirectoryInUse: 0 no, 1 yes, 2 when `fuel` runs out, which stands for the
\* unbounded recursion of the source on a cyclic FST.
RECURSIVE IsDirectoryInUseFrom(_, _, _, _)
IsDirectoryInUseFrom(s, superblock, child, fuel) ==
  LET Inner(inner) ==
        IF inner # 0 THEN inner
        ELSE IsDirectoryInUseFrom(s, superblock, superblock.fst[child].sib, fuel - 1)
  IN  IF child >= FstSize THEN 0
      ELSE IF fuel = 0 THEN 2
      ELSE IF IsFile(superblock.fst[child])
      THEN Inner(IF IsFileOpened(s, child) THEN 1 ELSE 0)
      ELSE Inner(IsDirectoryInUseFrom(s, superblock, superblock.fst[child].sub, fuel - 1))

IsDirectoryInUse(s, superblock, directory) ==
  IsDirectoryInUseFrom(s, superblock, superblock.fst[directory].sub, FstSize + 1)

\* FlushFileCache.  A cache that names a closed handle makes the source read
\* through a null Handle*: outcome `u`.
FlushFileCache(s, u) ==
  LET Flushed(w) ==
        IF w.rc = Success
        THEN Res([w.s EXCEPT !.m_handles[s.m_cache_fd].superblock_flush_needed = TRUE],
                 Success, 0)
        ELSE w
  IN
  IF s.m_cache_fd = NoFd \/ ~s.m_cache_for_write THEN Res(s, Success, 0)
  ELSE IF ~GetHandleFromFd(s, s.m_cache_fd)
  THEN IF u.crash THEN Res(Die(s), Crashed, 0)
       ELSE WriteFileData([s EXCEPT !.ub = TRUE], u.fst_index, s.m_cache_data,
                          s.m_cache_chain_index, u.file_size)
  ELSE Flushed(WriteFileData(s, s.m_handles[s.m_cache_fd].fst_index, s.m_cache_data,
                             s.m_cache_chain_index, s.m_handles[s.m_cache_fd].file_size))

PopulateFileCache(s, fd, offset, write, u) ==
  LET chain_index == offset \div CLUSTER_DATA_SIZE
      \* the cluster is read straight into m_cache_data, also when its HMAC is wrong
      Filled(r) ==
        LET filled == IF r.val = <<>> THEN r.s ELSE [r.s EXCEPT !.m_cache_data = r.val]
        IN  IF r.rc # Success THEN Res(filled, r.rc, 0)
            ELSE Res([filled EXCEPT !.m_cache_fd = fd, !.m_cache_chain_index = chain_index,
                                    !.m_cache_for_write = write], Success, 0)
      Reserved(g) ==
        LET t == g.s
            handle == t.m_handles[fd]
            needs_read == offset % CLUSTER_DATA_SIZE # 0 \/ offset # handle.file_size
        IN  IF ~g.val THEN Res(t, SuperblockInitFailed, 0)
            ELSE IF write /\ FirstUnusedCluster(t.m_superblock.fat) = FatSize
            THEN Res(t, NoFreeSpace, 0)
            ELSE Filled(IF needs_read THEN ReadFileData(t, handle.fst_index, chain_index, u)
                        ELSE Res(t, Success, <<>>))
      Flushed(f) ==
        IF f.rc # Success THEN f
        ELSE Reserved(IF write THEN GetSuperblock(f.s) ELSE Res(f.s, Success, TRUE))
  IN  IF s.m_cache_fd = fd /\ s.m_cache_chain_index = chain_index THEN Res(s, Success, 0)
      ELSE Flushed(FlushFileCache(s, u))

\* An AssignFreeHandle that hands out the first slot, open or not.
AssignFreeHandleFirst(s) == 0

\* OpenFile: val is the fd.
AssignFreeHandle(s) ==
  IF \E fd \in Fds : ~s.m_handles[fd].opened
  THEN CHOOSE fd \in Fds : ~s.m_handles[fd].opened /\ \A e \in 0 .. (fd - 1) : s.m_handles[e].opened
  ELSE NumHandles

\* ---------------------------------------------------- path lookup (LowLevel)
\* GetFstIndex(superblock, parent, file_name): NoIndex stands for the error result.
RECURSIVE FindInChain(_, _, _, _)
FindInChain(superblock, index, file_name, fuel) ==
  IF index >= FstSize THEN NoIndex
  ELSE IF fuel = 0 THEN 0 - 1
  ELSE IF GetName(superblock.fst[index]) = file_name THEN index
  ELSE FindInChain(superblock, superblock.fst[index].sib, file_name, fuel - 1)

GetFstIndexIn(superblock, parent, file_name) ==
  IF parent >= FstSize \/ Len(file_name) > NameLen THEN NoIndex
  ELSE FindInChain(superblock, superblock.fst[parent].sub, file_name, FstSize + 1)

RECURSIVE ResolveComponents(_, _, _)
ResolveComponents(superblock, fst_index, components) ==
  LET Resolved(result) ==
        IF result < 0 THEN result
        ELSE IF result >= FstSize THEN NoIndex
        ELSE ResolveComponents(superblock, result, Tail(components))
  IN  IF components = <<>> THEN fst_index
      ELSE Resolved(GetFstIndexIn(superblock, fst_index, Head(components)))

\* GetFstIndex(superblock, path)
GetFstIndex(superblock, path) ==
  IF path = <<Slash>> \/ path = <<>> THEN 0
  ELSE ResolveComponents(superblock, 0, SplitString(SubSeq(path, 2, Len(path)), 1, <<>>))

GetUnusedFstIndex(superblock) ==
  IF \E i \in FstIdx : superblock.fst[i].mode % 4 = 0
  THEN CHOOSE i \in FstIdx : superblock.fst[i].mode % 4 = 0
                             /\ \A j \in 0 .. (i - 1) : superblock.fst[j].mode % 4 # 0
  ELSE NoIndex

OpenFile(s0, uid, gid, path, mode) ==
  LET Assigned(s, index, fd) ==
        IF fd = NumHandles THEN Res(s, NoFreeHandle, 0)
        ELSE Res([s EXCEPT !.m_handles[fd] =
                     [opened |-> TRUE, fst_index |-> index, gid |-> gid, uid |-> uid,
                      mode |-> mode, file_offset |-> 0,
                      file_size |-> s.m_superblock.fst[index].size,
                      superblock_flush_needed |-> FALSE]], Success, fd)
      Found(s, index) ==
        IF index < 0 THEN Res(Die(s), Crashed, 0)
        ELSE IF index = NoIndex THEN Res(s, NotFound, 0)
        ELSE IF ~IsFile(s.m_superblock.fst[index]) THEN Res(s, Invalid, 0)
        ELSE IF ~HasPermission(s.m_superblock.fst[index], uid, gid, mode)
        THEN Res(s, AccessDenied, 0)
        ELSE Assigned(s, index, AssignFreeHandle(s))
      WithSuperblock(g) ==
        IF ~g.val THEN Res(g.s, SuperblockInitFailed, 0)
        ELSE Found(g.s, GetFstIndex(g.s.m_superblock, path))
  IN  IF ~IsValidNonRootPath(path) THEN Res(s0, Invalid, 0)
      ELSE WithSuperblock(GetSuperblock(s0))

Close(s, fd, u) ==
  LET Release(b) ==
        IF b.rc # Success THEN b
        ELSE Res([b.s EXCEPT !.m_handles[fd] = HandleZero], Success, 0)
      Persist(t) ==
        Release(IF t.m_handles[fd].superblock_flush_needed THEN FlushSuperblock(t)
                ELSE Res(t, Success, 0))
      Flushed(f) ==
        IF f.rc # Success THEN f
        ELSE Persist(IF s.m_cache_fd = fd THEN [f.s EXCEPT !.m_cache_fd = NoFd] ELSE f.s)
  IN  IF ~GetHandleFromFd(s, fd) THEN Res(s, Invalid, 0)
      ELSE Flushed(IF s.m_cache_fd = fd THEN FlushFileCache(s, u) ELSE Res(s, Success, 0))

\* the loop of ReadBytesFromFile; `out` is what has been copied to the caller
RECURSIVE ReadLoop(_, _, _, _, _)
ReadLoop(s, fd, count, out, u) ==
  LET Cached(p) ==
        IF p.rc # Success THEN Res(p.s, p.rc, out)
        ELSE LET t == p.s
                 start == t.m_handles[fd].file_offset
                          - t.m_cache_chain_index * CLUSTER_DATA_SIZE
                 copy_length == Min(CLUSTER_DATA_SIZE - start, count - Len(out))
             IN  ReadLoop([t EXCEPT !.m_handles[fd].file_offset = @ + copy_length],
                          fd, count,
                          out \o SubSeq(t.m_cache_data, start + 1, start + copy_length), u)
  IN  IF Len(out) = count THEN Res(s, Success, out)
      ELSE Cached(PopulateFileCache(s, fd, s.m_handles[fd].file_offset, FALSE, u))

\* ReadBytesFromFile: val is the bytes copied to the caller's buffer.
ReadBytesFromFile(s, fd, count0, u) ==
  IF ~GetHandleFromFd(s, fd) THEN Res(s, Invalid, <<>>)
  ELSE IF s.m_handles[fd].fst_index >= FstSize THEN Res(s, Invalid, <<>>)
  ELSE IF s.m_handles[fd].mode % 2 = 0 THEN Res(s, AccessDenied, <<>>)
  ELSE LET handle == s.m_handles[fd]
           count == IF (count0 + handle.file_offset) % U32 > handle.file_size
                    THEN (handle.file_size - handle.file_offset) % U32
                    ELSE count0
       IN  ReadLoop(s, fd, count, <<>>, u)

\* the loop of WriteBytesToFile; `done` bytes of `ptr` have been processed
RECURSIVE WriteLoop(_, _, _, _, _)
WriteLoop(s, fd, ptr, done, u) ==
  LET Cached(p) ==
        IF p.rc # Success THEN Res(p.s, p.rc, done)
        ELSE LET t == p.s
                 start == t.m_handles[fd].file_offset
                          - t.m_cache_chain_index * CLUSTER_DATA_SIZE
                 copy_length == Min(CLUSTER_DATA_SIZE - start, Len(ptr) - done)
                 new_offset == t.m_handles[fd].file_offset + copy_length
                 data == [i \in 1 .. CLUSTER_DATA_SIZE |->
                            IF i > start /\ i <= start + copy_length
                            THEN ptr[done + i - start] ELSE t.m_cache_data[i]]
             IN  WriteLoop([t EXCEPT !.m_cache_data = data,
                                     !.m_handles[fd].file_offset = new_offset,
                                     !.m_handles[fd].file_size = Max(new_offset, @)],
                           fd, ptr, done + copy_length, u)
  IN  IF done = Len(ptr) THEN Res(s, Success, done)
      ELSE Cached(PopulateFileCache(s, fd, s.m_handles[fd].file_offset, TRUE, u))

\* WriteBytesToFile: val is the number of bytes taken.
WriteBytesToFile(s, fd, ptr, u) ==
  IF ~GetHandleFromFd(s, fd) THEN Res(s, Invalid, 0)
  ELSE IF s.m_handles[fd].fst_index >= FstSize THEN Res(s, Invalid, 0)
  ELSE IF s.m_handles[fd].mode \div 2 = 0 THEN Res(s, AccessDenied, 0)
  ELSE WriteLoop(s, fd, ptr, 0, u)

SeekSet == 0
SeekCurrent == 1
SeekEnd == 2

\* SeekFile: val is the new offset.
SeekFile(s, fd, offset, mode) ==
  IF ~GetHandleFromFd(s, fd) THEN Res(s, Invalid, 0)
  ELSE IF s.m_handles[fd].fst_index >= FstSize THEN Res(s, Invalid, 0)
  ELSE IF mode \notin {SeekSet, SeekCurrent, SeekEnd} THEN Res(s, Invalid, 0)
  ELSE LET handle == s.m_handles[fd]
           new_position == IF mode = SeekSet THEN offset
                           ELSE IF mode = SeekCurrent THEN (handle.file_offset + offset) % U32
                           ELSE (handle.file_size + offset) % U32
       IN  IF handle.file_size < new_position THEN Res(s, Invalid, 0)
           ELSE Res([s EXCEPT !.m_handles[fd].file_offset = new_position],
                    Success, new_position)

\* ------------------------------------------------------------------ FS.cpp
RootPath == <<Slash>>

\* NandFileSystem::NandFileSystem: load the superblock, normalise 0xffff in the FAT.
Construct(s) ==
  LET Normalised(g) ==
        IF ~g.val THEN g.s
        ELSE [g.s EXCEPT !.m_superblock.fat =
                [c \in FatIdx |-> IF @[c] = NoIndex THEN CLUSTER_UNUSED ELSE @[c]]]
  IN  Normalised(GetSuperblock(s))

FormattedFat ==
  [i \in FatIdx |-> IF i < FirstDataCluster \/ i >= SUPERBLOCK_START_CLUSTER
                    THEN CLUSTER_RESERVED ELSE CLUSTER_UNUSED]

RootEntry ==
  [FstEntryZero EXCEPT !.name = SetName(RootPath), !.mode = 22,
                       !.sub = NoIndex, !.sib = NoIndex]

Format(s0, uid) ==
  LET WithSuperblock(g) ==
        LET s == IF g.val THEN g.s
                 ELSE [g.s EXCEPT !.m_superblock_set = TRUE, !.m_superblock = SuperblockZero]
        IN  FlushSuperblock(
              [s EXCEPT !.m_superblock.magic = TRUE,
                        !.m_superblock.fat = FormattedFat,
                        !.m_superblock.fst = [i \in FstIdx |->
                                                IF i = 0 THEN RootEntry ELSE FstEntryZero],
                        !.m_handles = [fd \in Fds |-> [@[fd] EXCEPT !.opened = FALSE]]])
  IN  IF uid # 0 THEN Res(s0, AccessDenied, 0)
      ELSE WithSuperblock(GetSuperblock(s0))

\* c - ' ' > 0x5e on a signed char
BadPathChar(c) == (IF c >= 128 THEN c - 256 ELSE c) - 32 > 94

CreateFileOrDirectory(s0, caller_uid, caller_gid, path, attribute, modes, is_file) ==
  LET split_path == SplitPath(path)
      Linked(s, parent_idx, child_idx) ==
        LET parent == s.m_superblock.fst[parent_idx]
            child == SetAccessMode(
                       [name |-> SetName(split_path.file_name),
                        mode |-> IF is_file THEN 1 ELSE 2,
                        attr |-> attribute,
                        sub |-> IF is_file THEN CLUSTER_LAST_IN_CHAIN ELSE NoIndex,
                        sib |-> IF child_idx # parent_idx THEN parent.sub
                                ELSE IF is_file THEN CLUSTER_LAST_IN_CHAIN ELSE NoIndex,
                        size |-> 0, uid |-> caller_uid, gid |-> caller_gid, x3 |-> 0],
                       modes.owner, modes.group, modes.other)
            \* child and parent are the same entry when child_idx = parent_idx
            fst1 == [s.m_superblock.fst EXCEPT ![child_idx] = child]
            fst2 == [fst1 EXCEPT ![parent_idx].sub = child_idx]
        IN  FlushSuperblock([s EXCEPT !.m_superblock.fst = fst2])
      Child(s, parent_idx, existing, child_idx) ==
        IF existing < 0 THEN Res(Die(s), Crashed, 0)
        ELSE IF existing # NoIndex THEN Res(s, AlreadyExists, 0)
        ELSE IF child_idx = NoIndex THEN Res(s, FstFull, 0)
        ELSE Linked(s, parent_idx, child_idx)
      Parent(s, parent_idx) ==
        IF parent_idx < 0 THEN Res(Die(s), Crashed, 0)
        ELSE IF parent_idx = NoIndex THEN Res(s, NotFound, 0)
        ELSE IF ~HasPermission(s.m_superblock.fst[parent_idx], caller_uid, caller_gid,
                               ModeWrite)
        THEN Res(s, AccessDenied, 0)
        ELSE Child(s, parent_idx,
                   GetFstIndexIn(s.m_superblock, parent_idx, split_path.file_name),
                   GetUnusedFstIndex(s.m_superblock))
      WithSuperblock(g) ==
        IF ~g.val THEN Res(g.s, SuperblockInitFailed, 0)
        ELSE Parent(g.s, GetFstIndex(g.s.m_superblock, split_path.parent))
  IN  IF ~IsValidNonRootPath(path) \/ (\E i \in 1 .. Len(path) : BadPathChar(path[i]))
      THEN Res(s0, Invalid, 0)
      ELSE IF ~is_file /\ CountSlashes(path) > MaxDirDepth
      THEN Res(s0, TooManyPathComponents, 0)
      ELSE WithSuperblock(GetSuperblock(s0))

CreateFile(s, uid, gid, path, attribute, modes) ==
  CreateFileOrDirectory(s, uid, gid, path, attribute, modes, TRUE)

CreateDirectory(s, uid, gid, path, attribute, modes) ==
  CreateFileOrDirectory(s, uid, gid, path, attribute, modes, FALSE)

\* DeleteFile: free the chain, clear the mode.
RECURSIVE FreeChain(_, _)
FreeChain(fat, i) ==
  IF i >= FatSize THEN fat
  ELSE FreeChain([fat EXCEPT ![i] = CLUSTER_UNUSED], fat[i])

DeleteFile(superblock, file) ==
  [superblock EXCEPT !.fat = FreeChain(superblock.fat, superblock.fst[file].sub),
                     !.fst[file].mode = 0]

\* DeleteDirectoryContents; [sb, hang]: hang when `fuel` runs out (cyclic FST).
RECURSIVE DeleteContentsFrom(_, _, _)
DeleteContentsFrom(superblock, child, fuel) ==
  LET Inner(inner) ==
        IF inner.hang THEN inner
        ELSE DeleteContentsFrom(inner.sb, inner.sb.fst[child].sib, fuel - 1)
  IN  IF child >= FstSize THEN [sb |-> superblock, hang |-> FALSE]
      ELSE IF fuel = 0 THEN [sb |-> superblock, hang |-> TRUE]
      ELSE Inner(IF IsDirectory(superblock.fst[child])
                 THEN DeleteContentsFrom(superblock, superblock.fst[child].sub, fuel - 1)
                 ELSE [sb |-> DeleteFile(superblock, child), hang |-> FALSE])

DeleteDirectoryContents(superblock, directory) ==
  DeleteContentsFrom(superblock, superblock.fst[directory].sub, FstSize + 1)

\* RemoveFstEntryFromChain; [sb, rc]
RECURSIVE UnlinkAfter(_, _, _, _)
UnlinkAfter(superblock, previous, child, fuel) ==
  LET index == superblock.fst[previous].sib IN
  IF index >= FstSize THEN [sb |-> superblock, rc |-> NotFound]
  ELSE IF fuel = 0 THEN [sb |-> superblock, rc |-> Crashed]
  ELSE IF index = child
  THEN [sb |-> [superblock EXCEPT !.fst[previous].sib = superblock.fst[child].sib,
                                  !.fst[child].mode = 0],
        rc |-> Success]
  ELSE UnlinkAfter(superblock, index, child, fuel - 1)

RemoveFstEntryFromChain(superblock, parent, child) ==
  IF superblock.fst[parent].sub = child
  THEN [sb |-> [superblock EXCEPT !.fst[parent].sub = superblock.fst[child].sib,
                                  !.fst[child].mode = 0],
        rc |-> Success]
  ELSE IF superblock.fst[parent].sub >= FstSize THEN [sb |-> superblock, rc |-> Crashed]
  ELSE UnlinkAfter(superblock, superblock.fst[parent].sub, child, FstSize + 1)

\* Delete of the entry at `index`, contents first.  [sb, rc]; InUse leaves sb alone.
DeleteEntry(s, superblock, index) ==
  LET entry == superblock.fst[index]
      Emptied(d) == [sb |-> d.sb, rc |-> IF d.hang THEN Crashed ELSE Success]
      Checked(inuse) ==
        IF inuse = 2 THEN [sb |-> superblock, rc |-> Crashed]
        ELSE IF IsDirectory(entry) /\ inuse = 0
        THEN Emptied(DeleteDirectoryContents(superblock, index))
        ELSE IF IsFile(entry) /\ ~IsFileOpened(s, index)
        THEN [sb |-> DeleteFile(superblock, index), rc |-> Success]
        ELSE [sb |-> superblock, rc |-> InUse]
  IN  Checked(IF IsDirectory(entry) THEN IsDirectoryInUse(s, superblock, index) ELSE 0)

Delete(s0, caller_uid, caller_gid, path) ==
  LET split_path == SplitPath(path)
      Unlinked(s, r) ==
        IF r.rc = Crashed THEN Res(Die(s), Crashed, 0)
        ELSE IF r.rc # Success THEN Res([s EXCEPT !.m_superblock = r.sb], r.rc, 0)
        ELSE FlushSuperblock([s EXCEPT !.m_superblock = r.sb])
      Deleted(s, parent, index, d) ==
        IF d.rc = Crashed THEN Res(Die(s), Crashed, 0)
        ELSE IF d.rc # Success THEN Res(s, d.rc, 0)
        ELSE Unlinked(s, RemoveFstEntryFromChain(d.sb, parent, index))
      Found(s, parent, index) ==
        IF index < 0 THEN Res(Die(s), Crashed, 0)
        ELSE IF index = NoIndex THEN Res(s, NotFound, 0)
        ELSE Deleted(s, parent, index, DeleteEntry(s, s.m_superblock, index))
      Parent(s, parent) ==
        IF parent < 0 THEN Res(Die(s), Crashed, 0)
        ELSE IF parent = NoIndex THEN Res(s, NotFound, 0)
        ELSE IF ~HasPermission(s.m_superblock.fst[parent], caller_uid, caller_gid, ModeWrite)
        THEN Res(s, AccessDenied, 0)
        ELSE Found(s, parent, GetFstIndexIn(s.m_superblock, parent, split_path.file_name))
      WithSuperblock(g) ==
        IF ~g.val THEN Res(g.s, SuperblockInitFailed, 0)
        ELSE Parent(g.s, GetFstIndex(g.s.m_superblock, split_path.parent))
  IN  IF ~IsValidNonRootPath(path) THEN Res(s0, Invalid, 0)
      ELSE WithSuperblock(GetSuperblock(s0))

Rename(s0, caller_uid, caller_gid, old_path, new_path) ==
  LET split_old_path == SplitPath(old_path)
      split_new_path == SplitPath(new_path)
      Moved(s, new_parent, index, saved_mode, r2) ==
        IF r2.rc = Crashed THEN Res(Die(s), Crashed, 0)
        ELSE IF r2.rc # Success THEN Res([s EXCEPT !.m_superblock = r2.sb], r2.rc, 0)
        ELSE
        LET fst1 == [r2.sb.fst EXCEPT ![index].mode = saved_mode,
                                      ![index].name = SetName(split_new_path.file_name)]
            fst2 == [fst1 EXCEPT ![index].sib = fst1[new_parent].sub]
            fst3 == [fst2 EXCEPT ![new_parent].sub = index]
        IN  FlushSuperblock([s EXCEPT !.m_superblock.fat = r2.sb.fat,
                                      !.m_superblock.fst = fst3])
      Replaced(s, old_parent, new_parent, index, r1) ==
        IF r1.rc = Crashed THEN Res(Die(s), Crashed, 0)
        ELSE IF r1.rc # Success THEN Res([s EXCEPT !.m_superblock = r1.sb], r1.rc, 0)
        ELSE Moved(s, new_parent, index, r1.sb.fst[index].mode,
                   RemoveFstEntryFromChain(r1.sb, old_parent, index))
      Deleted(s, old_parent, new_parent, index, new_index, d) ==
        IF d.rc = Crashed THEN Res(Die(s), Crashed, 0)
        ELSE IF d.rc # Success THEN Res(s, d.rc, 0)
        ELSE Replaced(s, old_parent, new_parent, index,
                      IF new_index = NoIndex THEN d
                      ELSE RemoveFstEntryFromChain(d.sb, new_parent, new_index))
      Target(s, old_parent, new_parent, index, inuse, new_index) ==
        LET entry == s.m_superblock.fst[index] IN
        IF IsFile(entry)
           /\ SetName(split_old_path.file_name) # SetName(split_new_path.file_name)
        THEN Res(s, Invalid, 0)
        ELSE IF inuse = 2 THEN Res(Die(s), Crashed, 0)
        ELSE IF inuse = 1 \/ (IsFile(entry) /\ IsFileOpened(s, index)) THEN Res(s, InUse, 0)
        ELSE IF new_index < 0 THEN Res(Die(s), Crashed, 0)
        ELSE
        \* If there is already something of the same type at the new path, delete it.
        Deleted(s, old_parent, new_parent, index, new_index,
                IF new_index = NoIndex THEN [sb |-> s.m_superblock, rc |-> Success]
                ELSE IF s.m_superblock.fst[new_index].mode % 4 # entry.mode % 4
                        \/ new_index = index
                THEN [sb |-> s.m_superblock, rc |-> Invalid]
                ELSE DeleteEntry(s, s.m_superblock, new_index))
      Found(s, old_parent, new_parent, index) ==
        IF index < 0 THEN Res(Die(s), Crashed, 0)
        ELSE IF index = NoIndex THEN Res(s, NotFound, 0)
        ELSE Target(s, old_parent, new_parent, index,
                    IF IsDirectory(s.m_superblock.fst[index])
                    THEN IsDirectoryInUse(s, s.m_superblock, index) ELSE 0,
                    GetFstIndexIn(s.m_superblock, new_parent, split_new_path.file_name))
      Parents(s, old_parent, new_parent) ==
        IF old_parent < 0 \/ new_parent < 0 THEN Res(Die(s), Crashed, 0)
        ELSE IF old_parent = NoIndex \/ new_parent = NoIndex THEN Res(s, NotFound, 0)
        ELSE IF ~HasPermission(s.m_superblock.fst[old_parent], caller_uid, caller_gid,
                               ModeWrite)
                \/ ~HasPermission(s.m_superblock.fst[new_parent], caller_uid, caller_gid,
                                  ModeWrite)
        THEN Res(s, AccessDenied, 0)
        ELSE Found(s, old_parent, new_parent,
                   GetFstIndexIn(s.m_superblock, old_parent, split_old_path.file_name))
      WithSuperblock(g) ==
        IF ~g.val THEN Res(g.s, SuperblockInitFailed, 0)
        ELSE Parents(g.s, GetFstIndex(g.s.m_superblock, split_old_path.parent),
                     GetFstIndex(g.s.m_superblock, split_new_path.parent))
  IN  IF ~IsValidNonRootPath(old_path) \/ ~IsValidNonRootPath(new_path)
      THEN Res(s0, Invalid, 0)
      ELSE WithSuperblock(GetSuperblock(s0))

\* ReadDirectory: val is the list of names; the loop runs until 0xffff.
\* The loop of ReadDirectory from entry i.  An index outside the FST other than
\* 0xffff makes the loop read outside the array: the process dies, or the read yields
\* a garbage name and a garbage sib.  A chain that loops never ends.
NeverReturns == <<0 - 1>>
RECURSIVE ListChain(_, _, _, _)
ListChain(superblock, i, fuel, u) ==
  IF i = NoIndex THEN <<>>
  ELSE IF fuel = 0 THEN <<NeverReturns>>
  ELSE IF i >= FstSize
  THEN IF u.crash THEN <<NeverReturns>>
       ELSE <<(<<Indet>>)>> \o ListChain(superblock, u.fst_index, fuel - 1, u)
  ELSE <<GetName(superblock.fst[i])>>
         \o ListChain(superblock, superblock.fst[i].sib, fuel - 1, u)

RECURSIVE ChainLeavesFst(_, _, _)
ChainLeavesFst(superblock, i, fuel) ==
  IF i = NoIndex \/ fuel = 0 THEN FALSE
  ELSE IF i >= FstSize THEN TRUE
  ELSE ChainLeavesFst(superblock, superblock.fst[i].sib, fuel - 1)

ReadDirectory(s0, caller_uid, caller_gid, path, u) ==
  LET Listed(t, children) ==
        IF children # <<>> /\ children[Len(children)] = NeverReturns
        THEN Res(Die(t), Crashed, <<>>)
        ELSE Res(t, Success, children)
      Found(s, index) ==
        IF index < 0 THEN Res(Die(s), Crashed, <<>>)
        ELSE IF index = NoIndex THEN Res(s, NotFound, <<>>)
        ELSE IF ~HasPermission(s.m_superblock.fst[index], caller_uid, caller_gid, ModeRead)
        THEN Res(s, AccessDenied, <<>>)
        ELSE IF ~IsDirectory(s.m_superblock.fst[index]) THEN Res(s, Invalid, <<>>)
        ELSE LET first == s.m_superblock.fst[index].sub
             IN  Listed(IF ChainLeavesFst(s.m_superblock, first, FstSize + 1)
                        THEN [s EXCEPT !.ub = TRUE] ELSE s,
                        ListChain(s.m_superblock, first, FstSize + 1, u))
      WithSuperblock(g) ==
        IF ~g.val THEN Res(g.s, SuperblockInitFailed, <<>>)
        ELSE Found(g.s, GetFstIndex(g.s.m_superblock, path))
  IN  IF path = <<>> \/ Len(path) > MaxPathLen \/ path[1] # Slash
      THEN Res(s0, Invalid, <<>>)
      ELSE WithSuperblock(GetSuperblock(s0))

MetadataOf(superblock, index) ==
  LET e == superblock.fst[index]
  IN  [gid |-> e.gid, uid |-> e.uid, attribute |-> e.attr,
       modes |-> [owner |-> GetOwnerMode(e), group |-> GetGroupMode(e),
                  other |-> GetOtherMode(e)],
       is_file |-> IsFile(e), fst_index |-> index, size |-> e.size]

GetMetadata(s0, caller_uid, caller_gid, path) ==
  LET split_path == SplitPath(path)
      Child(s, child) ==
        IF child < 0 THEN Res(Die(s), Crashed, 0)
        ELSE IF child = NoIndex THEN Res(s, NotFound, 0)
        ELSE Res(s, Success, MetadataOf(s.m_superblock, child))
      Parent(s, parent) ==
        IF parent < 0 THEN Res(Die(s), Crashed, 0)
        ELSE IF parent = NoIndex THEN Res(s, NotFound, 0)
        ELSE IF ~HasPermission(s.m_superblock.fst[parent], caller_uid, caller_gid, ModeRead)
        THEN Res(s, AccessDenied, 0)
        ELSE Child(s, GetFstIndexIn(s.m_superblock, parent, split_path.file_name))
      WithSuperblock(g) ==
        IF ~g.val THEN Res(g.s, SuperblockInitFailed, 0)
        ELSE IF path = RootPath THEN Res(g.s, Success, MetadataOf(g.s.m_superblock, 0))
        ELSE IF ~IsValidNonRootPath(path) THEN Res(g.s, Invalid, 0)
        ELSE Parent(g.s, GetFstIndex(g.s.m_superblock, split_path.parent))
  IN  IF path = <<>> THEN Res(s0, Invalid, 0)
      ELSE WithSuperblock(GetSuperblock(s0))

SetMetadata(s0, caller_uid, path, uid, gid, attribute, modes) ==
  LET Found(s, index) ==
        IF index < 0 THEN Res(Die(s), Crashed, 0)
        ELSE IF index = NoIndex THEN Res(s, NotFound, 0)
        ELSE
        LET current_entry == s.m_superblock.fst[index] IN
        IF caller_uid # 0 /\ caller_uid # current_entry.uid THEN Res(s, AccessDenied, 0)
        ELSE IF caller_uid # 0 /\ current_entry.uid # uid THEN Res(s, AccessDenied, 0)
        ELSE IF current_entry.uid # uid /\ IsFile(current_entry) /\ current_entry.size # 0
        THEN Res(s, FileNotEmpty, 0)
        ELSE FlushSuperblock(
               [s EXCEPT !.m_superblock.fst[index] =
                  SetAccessMode([current_entry EXCEPT !.gid = gid, !.uid = uid,
                                                      !.attr = attribute],
                                modes.owner, modes.group, modes.other)])
      WithSuperblock(g) ==
        IF ~g.val THEN Res(g.s, SuperblockInitFailed, 0)
        ELSE Found(g.s, GetFstIndex(g.s.m_superblock, path))
  IN  IF path = <<>> \/ Len(path) > MaxPathLen \/ path[1] # Slash THEN Res(s0, Invalid, 0)
      ELSE WithSuperblock(GetSuperblock(s0))

\* GetNandStats: val is the counters.
GetNandStats(s0) ==
  LET WithSuperblock(g) ==
        IF ~g.val THEN Res(g.s, SuperblockInitFailed, 0)
        ELSE
        LET s == g.s
            fat == s.m_superblock.fat
            free == Cardinality({c \in FatIdx : fat[c] \in {CLUSTER_UNUSED, NoIndex}})
            reserved == Cardinality({c \in FatIdx : fat[c] = CLUSTER_RESERVED})
            bad == Cardinality({c \in FatIdx : fat[c] = CLUSTER_BAD_BLOCK})
            used == FatSize - free - reserved - bad
            used_inodes == Cardinality({i \in FstIdx : s.m_superblock.fst[i].mode % 4 # 0})
            dirty == IF s.m_cache_fd # NoFd /\ s.m_cache_for_write THEN 1 ELSE 0
        IN  Res(s, Success,
                [cluster_size |-> CLUSTER_DATA_SIZE,
                 free_clusters |-> (free - dirty) % U32,
                 used_clusters |-> used + dirty,
                 reserved_clusters |-> reserved, bad_clusters |-> bad,
                 used_inodes |-> used_inodes, free_inodes |-> FstSize - used_inodes])
  IN  WithSuperblock(GetSuperblock(s0))

\* ------------------------------------------------------------------ actions
\* Inputs of the public calls.
PathA == <<Slash, 97>>
PathB == <<Slash, 98>>
PathAA == <<Slash, 97, Slash, 97>>
\* a 12-byte name, and a 13-byte name with the same first 12 bytes
PathN12 == <<Slash, 110, 110, 110, 110, 110, 110, 110, 110, 110, 110, 110, 110>>
PathN13 == PathN12 \o <<110>>
TreePaths == {PathA, PathB, PathAA}
AllModes == [owner |-> ModeReadWrite, group |-> ModeReadWrite, other |-> ModeReadWrite]

Blank ==
  /\ m_nand = [c \in FatIdx |-> BlankCluster]
  /\ m_nand_sb = [i \in Slots |-> BlankSlot]

\* The caller's FileHandle objects. m_fs is 0 for a null pointer and 1 for the engine;
\* m_fd is a std::optional<Fd>, with value 0 when it is empty.
HandleObjs == {"a", "b"}
NoFs == 0
TheFs == 1
NoOptFd == [has_value |-> FALSE, value |-> 0]
OptFd(fd) == [has_value |-> TRUE, value |-> fd]
NoFileHandle == [alive |-> FALSE, m_fs |-> NoFs, m_fd |-> NoOptFd]
NoMoveCall ==
  [state |-> "none", this |-> "a", other |-> "a", depth |-> 0, again |-> FALSE,
   build |-> "call", moved_fd |-> NoOptFd]

Fresh ==
  /\ m_superblock_set = FALSE
  /\ m_superblock = SuperblockZero
  /\ m_superblock_index = 0
  /\ m_handles = [fd \in Fds |-> HandleZero]
  /\ m_cache_fd = NoFd
  /\ m_cache_chain_index = NoIndex
  /\ m_cache_data = [i \in 1 .. CLUSTER_DATA_SIZE |-> Indet]
  /\ m_cache_for_write = FALSE
  /\ writes_left = NoFailure
  /\ bad_slots = {}
  /\ file_handles = [o \in HandleObjs |-> NoFileHandle]
  /\ move_call = NoMoveCall
  /\ constructed = FALSE
  /\ crashed = FALSE
  /\ ret = [op |-> "none", rc |-> Success]
  /\ nops = 0

\* The engine is created on a blank backing file.
Init == Blank /\ Fresh /\ limit = MaxOps

CommitEngine(r, op) ==
  /\ m_nand' = r.s.m_nand
  /\ m_nand_sb' = r.s.m_nand_sb
  /\ m_superblock_set' = r.s.m_superblock_set
  /\ m_superblock' = r.s.m_superblock
  /\ m_superblock_index' = r.s.m_superblock_index
  /\ m_handles' = r.s.m_handles
  /\ m_cache_fd' = r.s.m_cache_fd
  /\ m_cache_chain_index' = r.s.m_cache_chain_index
  /\ m_cache_data' = r.s.m_cache_data
  /\ m_cache_for_write' = r.s.m_cache_for_write
  /\ writes_left' = r.s.writes_left
  /\ crashed' = r.s.crashed
  /\ ret' = [op |-> op, rc |-> r.rc]
  /\ nops' = nops + 1
  /\ UNCHANGED <<bad_slots, constructed, limit>>

\* A call made on the engine directly leaves the caller's FileHandle objects alone.
Commit(r, op) == CommitEngine(r, op) /\ UNCHANGED <<file_handles, move_call>>

\* A call that may run into undefined behaviour takes every outcome of it.
CommitUB(F(_), op) ==
  LET Outcome(r0) ==
        IF r0.s.ub THEN \E u \in UBOutcomes : Commit(F(u), op)
        ELSE Commit(r0, op)
  IN  Outcome(F(UBNone))

Ready == constructed /\ ~crashed /\ nops < limit /\ move_call.state # "running"

DoConstruct ==
  /\ ~constructed
  /\ LET Built(s) ==
           /\ m_superblock_set' = s.m_superblock_set
           /\ m_superblock' = s.m_superblock
           /\ m_superblock_index' = s.m_superblock_index
     IN  Built(Construct(Cur))
  /\ constructed' = TRUE
  /\ UNCHANGED <<m_nand, m_nand_sb, m_handles, m_cache_fd, m_cache_chain_index,
                 m_cache_data, m_cache_for_write, writes_left, bad_slots, file_handles,
                 move_call, crashed, ret, nops, limit>>

DoFormat(uids) == Ready /\ \E uid \in uids : Commit(Format(Cur, uid), "Format")

DoCreateFile(paths) ==
  Ready /\ \E path \in paths : Commit(CreateFile(Cur, 0, 0, path, 0, AllModes), "CreateFile")

DoCreateDirectory(paths) ==
  Ready /\ \E path \in paths :
             Commit(CreateDirectory(Cur, 0, 0, path, 0, AllModes), "CreateDirectory")

DoDelete(paths) == Ready /\ \E path \in paths : Commit(Delete(Cur, 0, 0, path), "Delete")

DoRename(paths) ==
  Ready /\ \E old_path \in paths, new_path \in paths :
             Commit(Rename(Cur, 0, 0, old_path, new_path), "Rename")

DoSetMetadata(paths, uids) ==
  Ready /\ \E path \in paths, uid \in uids :
             Commit(SetMetadata(Cur, 0, path, uid, 0, 0, AllModes), "SetMetadata")

DoOpenFile(paths) ==
  Ready /\ \E path \in paths : Commit(OpenFile(Cur, 0, 0, path, ModeReadWrite), "OpenFile")

DoClose == Ready /\ \E fd \in Fds : CommitUB(LAMBDA u : Close(Cur, fd, u), "Close")

DoRead(counts) ==
  Ready /\ \E fd \in Fds, count \in counts :
             CommitUB(LAMBDA u : ReadBytesFromFile(Cur, fd, count, u), "Read")

DoWrite(datas) ==
  Ready /\ \E fd \in Fds, data \in datas :
             CommitUB(LAMBDA u : WriteBytesToFile(Cur, fd, data, u), "Write")

DoSeek(offsets) ==
  Ready /\ \E fd \in Fds, offset \in offsets :
             Commit(SeekFile(Cur, fd, offset, SeekSet), "Seek")

DoSeekFile(offsets, modes) ==
  Ready /\ \E fd \in Fds, offset \in offsets, mode \in modes :
             Commit(SeekFile(Cur, fd, offset, mode), "Seek")

DoReadDirectory(paths) ==
  Ready /\ \E path \in paths :
             CommitUB(LAMBDA u : ReadDirectory(Cur, 0, 0, path, u), "ReadDirectory")

DoGetMetadata(paths) ==
  Ready /\ \E path \in paths : Commit(GetMetadata(Cur, 0, 0, path), "GetMetadata")

DoGetNandStats == Ready /\ Commit(GetNandStats(Cur), "GetNandStats")

\* Calls made by any caller, and metadata of any owner and access modes.
DoOpenFileAs(paths, uids, gids, modes) ==
  Ready /\ \E path \in paths, uid \in uids, gid \in gids, mode \in modes :
             Commit(OpenFile(Cur, uid, gid, path, mode), "OpenFile")

DoDeleteAs(paths, uids, gids) ==
  Ready /\ \E path \in paths, uid \in uids, gid \in gids :
             Commit(Delete(Cur, uid, gid, path), "Delete")

DoChangeMetadata(paths, uids, gids, modes) ==
  Ready /\ \E path \in paths, uid \in uids, gid \in gids, m \in modes :
             Commit(SetMetadata(Cur, 0, path, uid, gid, 0, m), "SetMetadata")

\* Metadata operations and handles on a small tree, from a blank image.
Next ==
  \/ DoConstruct
  \/ DoFormat({0, 1})
  \/ DoCreateFile(TreePaths)
  \/ DoCreateDirectory(TreePaths)
  \/ DoDelete(TreePaths)
  \/ DoRename(TreePaths)
  \/ DoSetMetadata({PathA}, {0, 1})
  \/ DoOpenFile(TreePaths)
  \/ DoClose
  \/ DoRead({1})
  \/ DoWrite({<<1, 1, 1>>})
  \/ DoSeek({0})
  \/ DoGetNandStats

Spec == Init /\ [][Next]_vars

\* Reads, writes and seeks through the handles of one file, from a blank image.
InitRW == Blank /\ Fresh /\ limit = MaxOpsRW

NextRW ==
  \/ DoConstruct
  \/ DoFormat({0})
  \/ DoCreateFile({PathA})
  \/ DoOpenFile({PathA})
  \/ DoClose
  \/ DoRead({1})
  \/ DoWrite({<<1, 1>>, <<2, 2, 2>>, <<3>>})
  \/ DoSeek({0})

SpecRW == InitRW /\ [][NextRW]_vars

\* Start-up on a backing file that already holds superblock copies, some of them
\* corrupted: slot i holds nothing, a copy as FlushSuperblock wrote it, a copy whose
\* contents changed after it was written, or a copy whose magic is destroyed.
EngineZero ==
  [m_nand |-> [c \in FatIdx |-> BlankCluster], m_nand_sb |-> [i \in Slots |-> BlankSlot],
   m_superblock_set |-> FALSE, m_superblock |-> SuperblockZero, m_superblock_index |-> 0,
   m_handles |-> [fd \in Fds |-> HandleZero], m_cache_fd |-> NoFd,
   m_cache_chain_index |-> NoIndex,
   m_cache_data |-> [i \in 1 .. CLUSTER_DATA_SIZE |-> Indet],
   m_cache_for_write |-> FALSE, writes_left |-> NoFailure, bad_slots |-> {},
   crashed |-> FALSE, ub |-> FALSE]
FormattedSuperblock == Format(EngineZero, 0).s.m_superblock
StoredCopy(i, v, kind) ==
  LET written == [FormattedSuperblock EXCEPT !.version = v]
      hmac == GenerateHmacForSuperblock(written, i)
  IN  IF kind = "good" THEN [sb |-> written, hmac |-> hmac]
      ELSE IF kind = "changed"
      THEN [sb |-> [written EXCEPT !.fat[FirstDataCluster] = CLUSTER_BAD_BLOCK], hmac |-> hmac]
      ELSE [sb |-> [written EXCEPT !.magic = FALSE], hmac |-> hmac]
SlotContents ==
  {[v |-> 0, kind |-> "blank"]} \cup
  [v : 1 .. MaxBootVersion, kind : {"good", "changed", "nomagic"}]
SlotImage(i, c) == IF c.kind = "blank" THEN BlankSlot ELSE StoredCopy(i, c.v, c.kind)
BootImages ==
  {[i \in Slots |-> IF i < BootSlots THEN SlotImage(i, f[i]) ELSE BlankSlot] :
     f \in [0 .. BootSlots - 1 -> SlotContents]}

InitBoot ==
  /\ m_nand = [c \in FatIdx |-> BlankCluster]
  /\ m_nand_sb \in BootImages
  /\ Fresh
  /\ limit = MaxOpsBoot

NextBoot ==
  \/ DoConstruct
  \/ DoFormat({0})
  \/ DoCreateFile({PathA})
  \/ DoOpenFile({PathA})
  \/ DoReadDirectory({RootPath})
  \/ DoGetMetadata({PathA})
  \/ DoGetNandStats

SpecBoot == InitBoot /\ [][NextBoot]_vars

\* Names of 12 and of 13 bytes in the root directory, from a blank image.
NamePaths == {PathN12, PathN13}
InitNames == Blank /\ Fresh /\ limit = MaxOpsNames

NextNames ==
  \/ DoConstruct
  \/ DoFormat({0})
  \/ DoCreateFile(NamePaths)
  \/ DoCreateDirectory(NamePaths)
  \/ DoOpenFile(NamePaths)
  \/ DoClose
  \/ DoDelete(NamePaths)
  \/ DoReadDirectory({RootPath})

SpecNames == InitNames /\ [][NextNames]_vars

\* Offsets and counts up to the ends of the u32 range on the handles of one file, from
\* a blank image: U32 - 1 is the displacement -1 of a seek, and the largest count.
SeekOffsets == {0, 1, 2, U32 - 1}
SeekModes == {SeekSet, SeekCurrent, SeekEnd}
ReadCounts == {1, U32 - 1}
InitSeek == Blank /\ Fresh /\ limit = MaxOpsSeek

NextSeek ==
  \/ DoConstruct
  \/ DoFormat({0})
  \/ DoCreateFile({PathA})
  \/ DoOpenFile({PathA})
  \/ DoClose
  \/ DoRead(ReadCounts)
  \/ DoWrite({<<1>>, <<1, 1, 1>>})
  \/ DoSeekFile(SeekOffsets, SeekModes)

SpecSeek == InitSeek /\ [][NextSeek]_vars

\* Entries of several owners, groups and access modes, and callers other than uid 0,
\* from a blank image.
Callers == {0, 1, 2}
PermModes ==
  {[owner |-> ModeRead, group |-> ModeWrite, other |-> ModeNone],
   [owner |-> ModeNone, group |-> ModeReadWrite, other |-> ModeRead],
   [owner |-> ModeWrite, group |-> ModeNone, other |-> ModeReadWrite]}
InitPerm == Blank /\ Fresh /\ limit = MaxOpsPerm

NextPerm ==
  \/ DoConstruct
  \/ DoFormat({0})
  \/ DoCreateFile({PathB, PathAA})
  \/ DoCreateDirectory({PathA})
  \/ DoChangeMetadata({RootPath, PathA, PathB}, {1}, {1}, PermModes)
  \/ DoOpenFileAs({PathB}, Callers, {1, 2}, {ModeRead, ModeWrite})
  \/ DoDeleteAs({PathB}, Callers, {1, 2})

SpecPerm == InitPerm /\ [][NextPerm]_vars

\* The backing file starts to fail after n more cluster writes.
DoBackingFileFails(lefts) ==
  /\ constructed /\ ~crashed /\ writes_left = NoFailure
  /\ \E n \in lefts : writes_left' = n
  /\ UNCHANGED <<m_nand, m_nand_sb, m_superblock_set, m_superblock, m_superblock_index,
                 m_handles, m_cache_fd, m_cache_chain_index, m_cache_data,
                 m_cache_for_write, bad_slots, file_handles, move_call, constructed,
                 crashed, ret, nops, limit>>

\* A data cluster of the backing file goes bad: its bytes change, its spare area stays.
DamagedCluster == [i \in 1 .. CLUSTER_DATA_SIZE |-> 170]
DoDamageCluster(clusters) ==
  /\ constructed /\ ~crashed
  /\ \E cluster \in clusters :
       /\ m_nand[cluster].hmac # NoHmac
       /\ m_nand[cluster].data # Encrypt(DamagedCluster)
       /\ m_nand' = [m_nand EXCEPT ![cluster].data = Encrypt(DamagedCluster)]
  /\ UNCHANGED <<m_nand_sb, m_superblock_set, m_superblock, m_superblock_index,
                 m_handles, m_cache_fd, m_cache_chain_index, m_cache_data,
                 m_cache_for_write, writes_left, bad_slots, file_handles, move_call,
                 constructed, crashed, ret, nops, limit>>

\* Reads and writes through the handles of one file on a backing file that fails or
\* holds a damaged cluster, from a blank image.
WritesLeft == {0, 1}
InitIO == Blank /\ Fresh /\ limit = MaxOpsIO

NextIO ==
  \/ DoConstruct
  \/ DoFormat({0})
  \/ DoCreateFile({PathA})
  \/ DoOpenFile({PathA})
  \/ DoClose
  \/ DoRead({1, 3})
  \/ DoWrite({<<1, 1, 1>>})
  \/ DoSeek({0})
  \/ DoBackingFileFails(WritesLeft)
  \/ DoDamageCluster({FirstDataCluster})

SpecIO == InitIO /\ [][NextIO]_vars

\* Two handles rewriting one file of two clusters, from a blank image.
InitDisk == Blank /\ Fresh /\ limit = MaxOpsDisk

NextDisk ==
  \/ DoConstruct
  \/ DoFormat({0})
  \/ DoCreateFile({PathA})
  \/ DoOpenFile({PathA})
  \/ DoClose
  \/ DoWrite({<<1, 1, 1>>})

SpecDisk == InitDisk /\ [][NextDisk]_vars

\* Start-up on the image of an engine that has flushed almost 2^32 times: copy a is the
\* last one written, with a version at most WrapDistance below the largest, and the
\* copies before it hold the versions before it.
MaxVersion == U32 - 1
OldImage(a, v) ==
  [i \in Slots |->
     StoredCopy(i, v - ((a - i) % NUMBER_OF_SUPERBLOCKS), "good")]
OldImages == {OldImage(a, MaxVersion - d) : a \in Slots, d \in 0 .. WrapDistance}

InitWrap ==
  /\ m_nand = [c \in FatIdx |-> BlankCluster]
  /\ m_nand_sb \in OldImages
  /\ Fresh
  /\ limit = MaxOpsWrap

NextWrap ==
  \/ DoConstruct
  \/ DoFormat({0})
  \/ DoCreateFile({PathA, PathB})
  \/ DoCreateDirectory({PathA})
  \/ DoDelete({PathA})
  \/ DoOpenFile({PathA})
  \/ DoClose
  \/ DoWrite({<<1>>})

SpecWrap == InitWrap /\ [][NextWrap]_vars

\* Some copies of the superblock area stop taking writes.
DoSlotsFail(slot_sets) ==
  /\ constructed /\ ~crashed /\ bad_slots = {}
  /\ \E slots \in slot_sets : bad_slots' = slots
  /\ UNCHANGED <<m_nand, m_nand_sb, m_superblock_set, m_superblock, m_superblock_index,
                 m_handles, m_cache_fd, m_cache_chain_index, m_cache_data,
                 m_cache_for_write, writes_left, file_handles, move_call, constructed,
                 crashed, ret, nops, limit>>

\* Metadata calls on a backing file whose superblock copies fail in any combination,
\* from a blank image.
InitRetry == Blank /\ Fresh /\ limit = MaxOpsRetry

NextRetry ==
  \/ DoConstruct
  \/ DoFormat({0})
  \/ DoCreateFile({PathA, PathB})
  \/ DoDelete({PathA})
  \/ DoSlotsFail((SUBSET Slots) \ {{}})

SpecRetry == InitRetry /\ [][NextRetry]_vars

\* Metadata calls on the image of an engine that has flushed almost 2^32 times, with
\* superblock copies that stop taking writes.
WornSlots == {{0}, {1, 2}}
InitWear ==
  /\ m_nand = [c \in FatIdx |-> BlankCluster]
  /\ m_nand_sb \in OldImages
  /\ Fresh
  /\ limit = MaxOpsWear

NextWear ==
  \/ DoConstruct
  \/ DoFormat({0})
  \/ DoCreateFile({PathA})
  \/ DoDelete({PathA})
  \/ DoSlotsFail(WornSlots)

SpecWear == InitWear /\ [][NextWear]_vars

\* ------------------------------------------------------------------ FileHandle
\* The engine's variables, which a step of the caller's FileHandle objects alone leaves
\* as they are.
engine_vars ==
  <<m_nand, m_nand_sb, m_superblock_set, m_superblock, m_superblock_index, m_handles,
    m_cache_fd, m_cache_chain_index, m_cache_data, m_cache_for_write, writes_left,
    bad_slots, constructed, ret, nops, limit>>

\* FileHandle::FileHandle(FileSystem* fs, Fd fd)
FileHandle(fs, fd) == [alive |-> TRUE, m_fs |-> fs, m_fd |-> OptFd(fd)]

\* FileHandle::FileHandle(FileHandle&& other), constructing object this
MoveConstruct(handles, this, other) ==
  [handles EXCEPT ![this] = [alive |-> TRUE, m_fs |-> handles[other].m_fs,
                             m_fd |-> handles[other].m_fd],
                  ![other].m_fd = NoOptFd]

\* std::tie(m_fs, m_fd)
Tie(h) == <<h.m_fs, h.m_fd>>

\* What a build makes of operator= calling itself without end: a call that takes a
\* stack frame each time, a jump back to the start of the function, or nothing at all
\* (a call without side effects that the compiler may assume to return).
Builds == {"call", "tail", "elide"}

\* OpenFile returns FileHandle{this, fd}, which the caller keeps as object o.
DoOpenHandle(objs, paths) ==
  /\ Ready
  /\ \E o \in objs, path \in paths :
       /\ ~file_handles[o].alive
       /\ LET Opened(r) ==
                /\ CommitEngine(r, "OpenFile")
                /\ file_handles' =
                     IF r.rc = Success
                     THEN [file_handles EXCEPT ![o] = FileHandle(TheFs, r.val)]
                     ELSE file_handles
          IN  Opened(OpenFile(Cur, 0, 0, path, ModeReadWrite))
  /\ UNCHANGED move_call

DoMoveConstruct(objs) ==
  /\ constructed /\ ~crashed /\ move_call.state # "running"
  /\ \E this \in objs, other \in objs :
       /\ ~file_handles[this].alive /\ file_handles[other].alive
       /\ file_handles' = MoveConstruct(file_handles, this, other)
  /\ UNCHANGED <<engine_vars, crashed, move_call>>

\* this = std::move(other) is called.
DoMoveAssign(objs) ==
  /\ constructed /\ ~crashed /\ move_call.state # "running"
  /\ \E this \in objs, other \in objs :
       /\ file_handles[this].alive /\ file_handles[other].alive
       /\ \E build \in (IF Tie(file_handles[this]) # Tie(file_handles[other])
                        THEN Builds ELSE {"call"}) :
            move_call' = [state |-> "running", this |-> this, other |-> other,
                          depth |-> 1, again |-> FALSE, build |-> build,
                          moved_fd |-> file_handles[other].m_fd]
  /\ UNCHANGED <<engine_vars, crashed, file_handles>>

\* FileHandle::operator=(FileHandle&& other): one evaluation of its body
MoveAssignStep ==
  /\ move_call.state = "running" /\ ~crashed
  /\ LET this == file_handles[move_call.this]
         other == file_handles[move_call.other]
     IN  IF Tie(this) = Tie(other)
         THEN /\ move_call' =
                   IF move_call.depth = 1 THEN [move_call EXCEPT !.state = "returned"]
                   ELSE [move_call EXCEPT !.depth = @ - 1]
              /\ UNCHANGED crashed
         ELSE \/ /\ move_call.build = "call" /\ move_call.depth < MaxStack
                 /\ move_call' = [move_call EXCEPT !.depth = @ + 1]
                 /\ UNCHANGED crashed
              \/ /\ move_call.build = "call" /\ move_call.depth = MaxStack
                 /\ move_call' = [move_call EXCEPT !.state = "overflow"]
                 /\ crashed' = TRUE
              \/ /\ move_call.build = "tail"
                 /\ move_call' = [move_call EXCEPT !.again = ~@]
                 /\ UNCHANGED crashed
              \/ /\ move_call.build = "elide"
                 /\ move_call' = [move_call EXCEPT !.state = "returned"]
                 /\ UNCHANGED crashed
  /\ UNCHANGED <<engine_vars, file_handles>>

\* FileHandle::~FileHandle()
DoDestroy(objs) ==
  /\ Ready
  /\ \E o \in objs :
       /\ file_handles[o].alive
       /\ file_handles' = [file_handles EXCEPT ![o] = NoFileHandle]
       /\ IF file_handles[o].m_fd.has_value /\ file_handles[o].m_fs # NoFs
          THEN LET Closed(r0) ==
                     \E u \in (IF r0.s.ub THEN UBOutcomes ELSE {UBNone}) :
                        CommitEngine(Close(Cur, file_handles[o].m_fd.value, u), "Close")
               IN  Closed(Close(Cur, file_handles[o].m_fd.value, UBNone))
          ELSE UNCHANGED <<engine_vars, crashed>>
  /\ UNCHANGED move_call

\* FileHandle::Release(), on an object that holds an fd
DoRelease(objs) ==
  /\ constructed /\ ~crashed /\ move_call.state # "running"
  /\ \E o \in objs :
       /\ file_handles[o].alive /\ file_handles[o].m_fd.has_value
       /\ file_handles' = [file_handles EXCEPT ![o].m_fd = NoOptFd]
  /\ UNCHANGED <<engine_vars, crashed, move_call>>

\* Two FileHandle objects on the handles of one file, from a blank image. A call of
\* operator= that has started keeps running.
InitMove == Blank /\ Fresh /\ limit = MaxOpsMove

NextMove ==
  \/ DoConstruct
  \/ DoFormat({0})
  \/ DoCreateFile({PathA})
  \/ DoOpenHandle(HandleObjs, {PathA})
  \/ DoMoveConstruct(HandleObjs)
  \/ DoMoveAssign(HandleObjs)
  \/ MoveAssignStep
  \/ DoDestroy(HandleObjs)
  \/ DoRelease(HandleObjs)

SpecMove == InitMove /\ [][NextMove]_vars /\ WF_vars(MoveAssignStep)

\* ------------------------------------------------------------------ the FST as a tree
\* Pre-order walk of the entries linked from entry i by sub (of directories) and sib.
RECURSIVE Traversal(_, _, _)
Traversal(superblock, i, fuel) ==
  IF i >= FstSize \/ fuel = 0 THEN <<>>
  ELSE LET e == superblock.fst[i] IN
       <<i>> \o (IF IsDirectory(e) THEN Traversal(superblock, e.sub, fuel - 1) ELSE <<>>)
             \o Traversal(superblock, e.sib, fuel - 1)

Occurrences(seq, x) == Cardinality({k \in 1 .. Len(seq) : seq[k] = x})
Range(seq) == {seq[k] : k \in 1 .. Len(seq)}
TypeBits(e) == e.mode % 4
FromRoot(superblock) == Traversal(superblock, 0, FstSize + 1)

\* The entries of the subtree of directory d: d and all that is linked below it.
Subtree(superblock, d) ==
  {d} \cup Range(Traversal(superblock, superblock.fst[d].sub, FstSize + 1))

\* The clusters of the chain that starts at cluster i.
RECURSIVE ChainClusters(_, _, _)
ChainClusters(fat, i, fuel) ==
  IF i >= FatSize \/ fuel = 0 THEN {}
  ELSE {i} \cup ChainClusters(fat, fat[i], fuel - 1)

\* A superblock is loaded and the process is alive.
Loaded == constructed /\ m_superblock_set /\ ~crashed

\* ------------------------------------------------------------------ claims
\* C6: a successful Format, CreateFile, CreateDirectory, Delete, Rename or SetMetadata,
\* and a successful Close of a dirty handle, moves the active slot index to
\* (index + 1) mod NUMBER_OF_SUPERBLOCKS and raises the version by exactly one; every
\* other call (a failing one, a read, a seek, a stat, a Close of a clean handle)
\* changes neither.  Over N such calls the index is (initial + N) mod the slot count
\* and the version has grown by N.
MetadataOps == {"Format", "CreateFile", "CreateDirectory", "Delete", "Rename", "SetMetadata"}
DirtyHandle(fd) ==
  \/ m_handles[fd].superblock_flush_needed
  \/ m_cache_fd = fd /\ m_cache_for_write
ClosedDirty == \E fd \in Fds : m_handles[fd].opened /\ ~m_handles'[fd].opened /\ DirtyHandle(fd)
Rotates ==
  /\ ret'.rc = Success
  /\ ret'.op \in MetadataOps \/ (ret'.op = "Close" /\ ClosedDirty)
RotationStep ==
  (nops' = nops + 1 /\ ~crashed') =>
    IF Rotates
    THEN /\ m_superblock_index' = (m_superblock_index + 1) % NUMBER_OF_SUPERBLOCKS
         /\ m_superblock'.version = m_superblock.version + 1
    ELSE /\ m_superblock_index' = m_superblock_index
         /\ m_superblock'.version = m_superblock.version
SuperblockRotation == [][RotationStep]_vars

\* C6 witness: Format, a create and the Close of a written handle have each rotated.
SuperblockRotationWitness ==
  /\ ret.op = "Close" /\ ret.rc = Success
  /\ m_superblock.version = 3
  /\ m_superblock_index = 3 % NUMBER_OF_SUPERBLOCKS
  /\ m_nand_sb[m_superblock_index].sb.version = 3

\* C7: once formatted, the HMAC stored with the active superblock copy verifies, and
\* for every file reachable from the root and every chain index below its chain
\* length the HMAC stored with that cluster verifies against the file's FST entry.
\* The clusters a read within the size of file f goes through.
FileChainLength(superblock, f) ==
  Min(Cardinality(ChainClusters(superblock.fat, superblock.fst[f].sub, FatSize + 1)),
      (superblock.fst[f].size + CLUSTER_DATA_SIZE - 1) \div CLUSTER_DATA_SIZE)
ClusterVerifies(superblock, f, k) ==
  LET c == GetClusterForFile(superblock, superblock.fst[f].sub, k) IN
  /\ c.has
  /\ c.cluster < FatSize
  /\ m_nand[c.cluster].hmac =
       GenerateHmacForData(superblock, Decrypt(m_nand[c.cluster].data), f, k)
IntegrityInvariant ==
  Loaded =>
    /\ m_nand_sb[m_superblock_index].hmac =
         GenerateHmacForSuperblock(m_nand_sb[m_superblock_index].sb, m_superblock_index)
    /\ \A f \in Range(FromRoot(m_superblock)) :
         IsFile(m_superblock.fst[f]) =>
           \A k \in 0 .. FileChainLength(m_superblock, f) - 1 :
             ClusterVerifies(m_superblock, f, k)

\* C8: once formatted, every FST entry with non-zero type bits is met exactly once by
\* the sub/sib walk from the root entry, and every entry the walk meets has non-zero
\* type bits.
FstReachability ==
  Loaded =>
    /\ \A i \in FstIdx :
         TypeBits(m_superblock.fst[i]) # 0 => Occurrences(FromRoot(m_superblock), i) = 1
    /\ \A i \in Range(FromRoot(m_superblock)) : TypeBits(m_superblock.fst[i]) # 0

\* C9: a successful Delete of a directory leaves every entry of its subtree with
\* mode 0, every cluster of every file of the subtree UNUSED, and used_inodes lower
\* by the number of entries of the subtree.
DeleteRemovesSubtree ==
  Loaded =>
    \A path \in TreePaths :
      LET before == m_superblock
          index == GetFstIndex(before, path)
          r == Delete(Cur, 0, 0, path)
          after == r.s.m_superblock
      IN  (index \in FstIdx /\ IsDirectory(before.fst[index]) /\ r.rc = Success) =>
            LET gone == Subtree(before, index) IN
            /\ \A i \in gone : after.fst[i].mode = 0
            /\ \A i \in gone :
                 IsFile(before.fst[i]) =>
                   \A c \in ChainClusters(before.fat, before.fst[i].sub, FatSize + 1) :
                     after.fat[c] = CLUSTER_UNUSED
            /\ GetNandStats(r.s).val.used_inodes =
                 GetNandStats(Cur).val.used_inodes - Cardinality(gone)

\* ------------------------------------------------------------------ claims on file data
\* Data whose bytes differ from everything the runs write.
ProbeDatas == {<<7>>, <<7, 8, 9>>}

\* x written by two successive calls, the first of j bytes.
WriteParts(s, fd, x, j) ==
  LET a == WriteBytesToFile(s, fd, SubSeq(x, 1, j), UBNone)
      b == WriteBytesToFile(a.s, fd, SubSeq(x, j + 1, Len(x)), UBNone)
  IN  [s |-> b.s, ok |-> a.rc = Success /\ b.rc = Success /\ ~b.s.ub]

\* count bytes read by two successive calls, the first of j bytes.
ReadParts(s, fd, count, j) ==
  LET a == ReadBytesFromFile(s, fd, j, UBNone)
      b == ReadBytesFromFile(a.s, fd, count - j, UBNone)
  IN  [s |-> b.s, ok |-> a.rc = Success /\ b.rc = Success /\ ~b.s.ub,
       val |-> IF a.rc = Success /\ b.rc = Success THEN a.val \o b.val ELSE <<>>]

\* fd is open for reading and writing, and it is the only open handle.
OpenReadWrite(fd) ==
  /\ m_handles[fd].opened
  /\ m_handles[fd].mode = ModeReadWrite
  /\ \A g \in Fds \ {fd} : ~m_handles[g].opened

\* C1: whatever reads, seeks and writes a ReadWrite handle has seen, once a write of x
\* at offset o and the Close of the handle have succeeded, opening the path again
\* and reading Len(x) bytes at offset o returns x.
WriteDurability ==
  Loaded =>
    \A fd \in Fds, x \in ProbeDatas :
      OpenReadWrite(fd) =>
        LET o == m_handles[fd].file_offset
            w == WriteBytesToFile(Cur, fd, x, UBNone)
            c == Close(w.s, fd, UBNone)
            reopened == OpenFile(c.s, 0, 0, PathA, ModeReadWrite)
            sought == SeekFile(reopened.s, reopened.val, o, SeekSet)
            r == ReadBytesFromFile(sought.s, reopened.val, Len(x), UBNone)
        IN  (w.rc = Success /\ c.rc = Success) =>
              /\ reopened.rc = Success
              /\ sought.rc = Success
              /\ r.rc = Success
              /\ r.val = x

\* C2: on a ReadWrite handle at offset 0, writing x, seeking to 0 and reading Len(x)
\* bytes returns x, however the write and the read are split into successive calls,
\* also when x spans several clusters.
WriteReadRoundTrip ==
  Loaded =>
    \A fd \in Fds, x \in ProbeDatas :
      (OpenReadWrite(fd) /\ m_handles[fd].file_offset = 0) =>
        \A jw \in 0 .. Len(x), jr \in 0 .. Len(x) :
          LET w == WriteParts(Cur, fd, x, jw)
              sought == SeekFile(w.s, fd, 0, SeekSet)
              r == ReadParts(sought.s, fd, Len(x), jr)
          IN  w.ok => (sought.rc = Success /\ r.ok /\ r.val = x)

\* C3: Close of an open fd succeeds and frees the slot: afterwards fd is not open and,
\* unless another handle holds the file, the file is not reported as opened; Close
\* returns an error only for an fd that is not open, and that error is Invalid.
CloseFreesSlot ==
  Loaded =>
    \A fd \in Fds :
      LET h == m_handles[fd]
          c == Close(Cur, fd, UBNone)
          others == {g \in Fds \ {fd} : m_handles[g].opened /\ m_handles[g].fst_index = h.fst_index}
      IN  IF h.opened
          THEN /\ c.rc = Success
               /\ ~c.s.m_handles[fd].opened
               /\ others = {} => ~IsFileOpened(c.s, h.fst_index)
          ELSE c.rc = Invalid /\ c.s = Cur

\* ------------------------------------------------------------------ claims on start-up
\* The copies whose magic is SFFS and whose stored HMAC verifies.
CopyVerifies(i) ==
  /\ m_nand_sb[i].sb.magic
  /\ m_nand_sb[i].hmac = GenerateHmacForSuperblock(m_nand_sb[i].sb, i)
ValidCopies == {i \in Slots : CopyVerifies(i)}
NewestValidCopies ==
  {i \in ValidCopies : \A j \in ValidCopies : m_nand_sb[j].sb.version <= m_nand_sb[i].sb.version}

\* C4: right after construction, if some copy has the magic and a verifying HMAC,
\* the active superblock is the copy of greatest version among those copies: copies
\* with a bad magic or a bad HMAC are no candidates.  Only images whose copies have
\* pairwise different versions are looked at.
MagicCopies == {i \in Slots : m_nand_sb[i].sb.magic}
DistinctVersions ==
  \A i, j \in MagicCopies : i # j => m_nand_sb[i].sb.version # m_nand_sb[j].sb.version
StartupSelection ==
  (constructed /\ nops = 0 /\ ValidCopies # {} /\ DistinctVersions) =>
    /\ GetSuperblock(Cur).val
    /\ m_superblock_index \in NewestValidCopies
    /\ m_superblock.version = m_nand_sb[m_superblock_index].sb.version

\* C5: while no copy on the backing file has the magic and a verifying HMAC (none
\* had at start-up and no Format has succeeded since), each of OpenFile, CreateFile,
\* CreateDirectory, Delete, Rename, ReadDirectory, GetMetadata, SetMetadata and
\* GetNandStats returns SuperblockInitFailed and writes nothing, at every call.
MetadataCalls ==
  {OpenFile(Cur, 0, 0, PathA, ModeRead),
   CreateFile(Cur, 0, 0, PathA, 0, AllModes),
   CreateDirectory(Cur, 0, 0, PathA, 0, AllModes),
   Delete(Cur, 0, 0, PathA),
   Rename(Cur, 0, 0, PathA, PathB),
   SetMetadata(Cur, 0, PathA, 0, 0, 0, AllModes)}
NoneIsStable ==
  (constructed /\ ~crashed /\ ValidCopies = {}) =>
    /\ \A r \in MetadataCalls :
         r.rc = SuperblockInitFailed /\ r.s.m_nand_sb = m_nand_sb
    /\ ReadDirectory(Cur, 0, 0, RootPath, UBNone).rc = SuperblockInitFailed
    /\ GetMetadata(Cur, 0, 0, PathA).rc = SuperblockInitFailed
    /\ GetNandStats(Cur).rc = SuperblockInitFailed

\* ------------------------------------------------------------------ claims on Delete
\* Entry index is held open: it is a file with an open handle, or a directory whose
\* subtree holds a file with an open handle.
HeldOpen(superblock, index) ==
  \E fd \in Fds :
    /\ m_handles[fd].opened
    /\ m_handles[fd].fst_index \in
         (IF IsDirectory(superblock.fst[index]) THEN Subtree(superblock, index) ELSE {index})
    /\ IsFile(superblock.fst[m_handles[fd].fst_index])

\* Delete(path) returns InUse and leaves FST, FAT and version alone when path is held
\* open; when it is not, Delete succeeds and ReadDirectory of the parent no longer
\* lists the name.
DeleteRespectsHandlesOn(paths) ==
  Loaded =>
    \A path \in paths :
      LET index == GetFstIndex(m_superblock, path)
          split_path == SplitPath(path)
          d == Delete(Cur, 0, 0, path)
          listing == ReadDirectory(d.s, 0, 0, split_path.parent, UBNone)
      IN  (index \in FstIdx /\ TypeBits(m_superblock.fst[index]) # 0) =>
            IF HeldOpen(m_superblock, index)
            THEN d.rc = InUse /\ d.s.m_superblock = m_superblock
            ELSE /\ d.rc = Success
                 /\ listing.rc = Success
                 /\ split_path.file_name \notin Range(listing.val)

\* C10: Delete respects open handles, and once the handles are closed the same
\* Delete succeeds and the name is gone from the parent's listing.
DeleteRespectsHandles == DeleteRespectsHandlesOn(NamePaths)

\* ------------------------------------------------------------------ claims on sizes and chains
\* The number of clusters walked from the sub field of file f.
ChainLen(superblock, f) ==
  Cardinality(ChainClusters(superblock.fat, superblock.fst[f].sub, FatSize + 1))

\* C11: whatever calls were made, with any number of handles on a file, every file
\* entry f has size(f) <= CLUSTER_DATA_SIZE * chain_len(f) <= size(f) +
\* CLUSTER_DATA_SIZE - 1, and size(f) = 0 exactly when sub is LAST_IN_CHAIN.
SizeChainInvariant ==
  Loaded =>
    \A f \in FstIdx :
      IsFile(m_superblock.fst[f]) =>
        LET size == m_superblock.fst[f].size
            span == CLUSTER_DATA_SIZE * ChainLen(m_superblock, f)
        IN  /\ size <= span
            /\ span <= size + CLUSTER_DATA_SIZE - 1
            /\ size = 0 <=> m_superblock.fst[f].sub = CLUSTER_LAST_IN_CHAIN

\* The clusters walked from cluster i, in order.
RECURSIVE ChainSeq(_, _, _)
ChainSeq(fat, i, fuel) ==
  IF i >= FatSize \/ fuel = 0 THEN <<>>
  ELSE <<i>> \o ChainSeq(fat, fat[i], fuel - 1)

FileChain(superblock, f) == ChainSeq(superblock.fat, superblock.fst[f].sub, FatSize + 1)
Allocated(fat, c) == fat[c] < FatSize \/ fat[c] = CLUSTER_LAST_IN_CHAIN
ReachableFiles(superblock) ==
  {f \in Range(FromRoot(superblock)) : IsFile(superblock.fst[f])}

\* C12: once formatted, the chains of the file entries partition the allocated
\* clusters: no cluster lies on two chains or twice on one, every cluster of a chain
\* has a FAT entry that is a cluster index or LAST_IN_CHAIN, and every cluster with
\* such a FAT entry lies on the chain of a file reachable from the root.
ClusterOwnership ==
  Loaded =>
    LET files == {f \in FstIdx : IsFile(m_superblock.fst[f])} IN
    /\ \A f \in files, g \in files :
         f # g => Range(FileChain(m_superblock, f)) \cap Range(FileChain(m_superblock, g)) = {}
    /\ \A f \in files :
         /\ \A c \in FatIdx : Occurrences(FileChain(m_superblock, f), c) <= 1
         /\ \A c \in Range(FileChain(m_superblock, f)) : Allocated(m_superblock.fat, c)
    /\ \A c \in FatIdx :
         Allocated(m_superblock.fat, c) =>
           \E f \in ReachableFiles(m_superblock) : c \in Range(FileChain(m_superblock, f))

\* ------------------------------------------------------------------ claims on offsets
\* The displacement a u32 offset stands for in the modes Current and End.
Signed(offset) == IF offset >= U32 \div 2 THEN offset - U32 ELSE offset
SeekTarget(handle, offset, mode) ==
  IF mode = SeekSet THEN offset
  ELSE IF mode = SeekCurrent THEN handle.file_offset + Signed(offset)
  ELSE handle.file_size + Signed(offset)
OffsetsWithinSize ==
  \A fd \in Fds : m_handles[fd].opened => m_handles[fd].file_offset <= m_handles[fd].file_size

\* C13: in the modes Set, Current and End, SeekFile succeeds and returns the new offset
\* exactly when the resulting offset lies in [0, file_size] of the handle; otherwise
\* it returns Invalid and leaves the offset alone.  Every open handle has
\* offset <= file_size.
SeekBounds ==
  Loaded =>
    /\ \A fd \in Fds, offset \in SeekOffsets, mode \in SeekModes :
         m_handles[fd].opened =>
           LET handle == m_handles[fd]
               target == SeekTarget(handle, offset, mode)
               r == SeekFile(Cur, fd, offset, mode)
           IN  IF 0 <= target /\ target <= handle.file_size
               THEN /\ r.rc = Success
                    /\ r.val = target
                    /\ r.s = [Cur EXCEPT !.m_handles[fd].file_offset = target]
               ELSE r.rc = Invalid /\ r.s = Cur
    /\ OffsetsWithinSize

\* C14: for every count n, a read through a handle opened with Read returns exactly
\* min(n, file_size - offset) bytes and advances the offset by that amount, and never
\* moves the offset past file_size, also when n + offset exceeds the u32 range.
ReadLength ==
  Loaded =>
    \A fd \in Fds, n \in ReadCounts :
      (m_handles[fd].opened /\ m_handles[fd].mode % 2 = 1
         /\ m_handles[fd].file_offset <= m_handles[fd].file_size) =>
        LET handle == m_handles[fd]
            expected == Min(n, handle.file_size - handle.file_offset)
            r == ReadBytesFromFile(Cur, fd, n, UBNone)
        IN  /\ r.s.m_handles[fd].file_offset <= handle.file_size
            /\ r.rc = Success
            /\ Len(r.val) = expected
            /\ r.s.m_handles[fd].file_offset = handle.file_offset + expected

\* ------------------------------------------------------------------ claims on the handle table
OpenHandles == {fd \in Fds : m_handles[fd].opened}
OpenProbe ==
  Loaded =>
    /\ Cardinality(OpenHandles) <= NumHandles
    /\ \A path \in TreePaths :
         LET index == GetFstIndex(m_superblock, path)
             r == OpenFile(Cur, 0, 0, path, ModeReadWrite)
         IN  /\ (OpenHandles = Fds /\ index \in FstIdx /\ IsFile(m_superblock.fst[index])) =>
                  (r.rc = NoFreeHandle /\ r.s = Cur)
             /\ r.rc = Success =>
                  /\ r.val \in Fds \ OpenHandles
                  /\ r.s.m_handles[r.val].opened
                  /\ r.s.m_handles[r.val].file_offset = 0
                  /\ r.s.m_handles[r.val].file_size = m_superblock.fst[index].size
                  /\ \A fd \in Fds \ {r.val} : r.s.m_handles[fd] = m_handles[fd]
SizeStep ==
  \A fd \in Fds :
    (~crashed' /\ m_handles[fd].opened /\ m_handles'[fd].opened
       /\ m_handles'[fd].file_size # m_handles[fd].file_size) =>
      (ret'.op = "Write" /\ m_handles'[fd].file_offset # m_handles[fd].file_offset)

\* C15: at most NumHandles handles are open; OpenFile of a file with every handle open
\* returns NoFreeHandle and changes nothing; a successful OpenFile returns an fd that
\* was not open, with offset 0 and the size of the FST entry, and leaves the other
\* handles alone; the size cached in an open handle changes only in a write made
\* through that handle.
HandleTable == []OpenProbe /\ [][SizeStep]_vars

\* C15 witness: an OpenFile was refused with every handle open.
HandleTableWitness ==
  /\ ret.op = "OpenFile" /\ ret.rc = NoFreeHandle
  /\ OpenHandles = Fds

\* ------------------------------------------------------------------ claims on Format
UsedInodes(superblock) == {i \in FstIdx : TypeBits(superblock.fst[i]) # 0}

\* C16: Format by a uid other than 0 returns AccessDenied and changes nothing.
\* Format(0), from any state, leaves the root as the only used inode (a directory
\* named "/", modes rw/rw/none, no children), the boot region and the superblock
\* region RESERVED and every other cluster UNUSED, no handle open, and GetNandStats
\* then reports used_inodes = 1, used_clusters = 0 and counters that add up to the
\* number of clusters.
FormatPostconditions ==
  (constructed /\ ~crashed) =>
    /\ Format(Cur, 1).rc = AccessDenied
    /\ Format(Cur, 1).s = Cur
    /\ LET r == Format(Cur, 0)
           superblock == r.s.m_superblock
           root == superblock.fst[0]
           stats == GetNandStats(r.s).val
       IN  /\ r.rc = Success
           /\ UsedInodes(superblock) = {0}
           /\ IsDirectory(root)
           /\ GetName(root) = RootPath
           /\ root.sub = NoIndex
           /\ GetOwnerMode(root) = ModeReadWrite
           /\ GetGroupMode(root) = ModeReadWrite
           /\ GetOtherMode(root) = ModeNone
           /\ \A c \in FatIdx :
                superblock.fat[c] = IF c < FirstDataCluster \/ c >= SUPERBLOCK_START_CLUSTER
                                    THEN CLUSTER_RESERVED ELSE CLUSTER_UNUSED
           /\ \A fd \in Fds : ~r.s.m_handles[fd].opened
           /\ stats.used_inodes = 1
           /\ stats.used_clusters = 0
           /\ stats.free_clusters + stats.reserved_clusters + stats.bad_clusters
                + stats.used_clusters = FatSize

FormattedFst == [i \in FstIdx |-> IF i = 0 THEN RootEntry ELSE FstEntryZero]

\* C17: after a successful Format(0) every superblock slot of the backing file holds
\* the freshly formatted FAT and FST with an HMAC that verifies, so that no slot keeps
\* metadata from before the Format.
FormatRegeneratesAll ==
  (constructed /\ ~crashed) =>
    LET r == Format(Cur, 0) IN
    r.rc = Success =>
      \A i \in Slots :
        LET copy == r.s.m_nand_sb[i] IN
        /\ copy.sb.magic
        /\ copy.sb.fat = FormattedFat
        /\ copy.sb.fst = FormattedFst
        /\ copy.hmac = GenerateHmacForSuperblock(copy.sb, i)

\* ------------------------------------------------------------------ claims on the cache
\* C18: in every state, an fd named by the write-behind cache is an open handle, and
\* the cached cluster lies within that handle's file; Format and Close leave no cache
\* entry for a handle they closed.
CacheOwnership ==
  Loaded =>
    (m_cache_fd # NoFd =>
       /\ m_cache_fd \in Fds
       /\ m_handles[m_cache_fd].opened
       /\ m_cache_chain_index * CLUSTER_DATA_SIZE <= m_handles[m_cache_fd].file_size)

\* ------------------------------------------------------------------ claims on permissions
\* The rule of the permission check: uid 0 may do anything; otherwise the requested
\* bits must be among the owner bits when the caller owns the entry, else among the
\* group bits when the caller is in its group, else among the other bits.
Bits(mode) == {b \in {1, 2} : (mode \div b) % 2 = 1}
Permitted(e, uid, gid, requested) ==
  \/ uid = 0
  \/ /\ e.uid = uid
     /\ Bits(requested) \subseteq Bits(GetOwnerMode(e))
  \/ /\ e.uid # uid /\ e.gid = gid
     /\ Bits(requested) \subseteq Bits(GetGroupMode(e))
  \/ /\ e.uid # uid /\ e.gid # gid
     /\ Bits(requested) \subseteq Bits(GetOtherMode(e))
PermPaths == {PathA, PathB, PathAA}
ParentOf(path) == GetFstIndex(m_superblock, SplitPath(path).parent)
\* r is denied exactly when the check fails, and a denied call changes nothing.
DeniedIff(r, permitted) ==
  /\ r.rc = AccessDenied <=> ~permitted
  /\ r.rc = AccessDenied => r.s = Cur

\* C19: HasPermission follows the rule, and every call checks it: OpenFile on the
\* target with the requested mode, CreateFile, CreateDirectory, Delete and Rename
\* with Write on the parent(s), ReadDirectory with Read on the target, GetMetadata
\* with Read on the parent; a call whose check fails returns AccessDenied and changes
\* nothing.
PermissionCheck ==
  Loaded =>
    \A uid \in Callers, gid \in Callers :
      /\ \A i \in FstIdx, requested \in {ModeNone, ModeRead, ModeWrite, ModeReadWrite} :
           HasPermission(m_superblock.fst[i], uid, gid, requested)
             <=> Permitted(m_superblock.fst[i], uid, gid, requested)
      /\ \A path \in PermPaths :
           LET index == GetFstIndex(m_superblock, path)
               parent == ParentOf(path)
           IN  /\ (index \in FstIdx /\ IsFile(m_superblock.fst[index])) =>
                    \A mode \in {ModeRead, ModeWrite, ModeReadWrite} :
                      DeniedIff(OpenFile(Cur, uid, gid, path, mode),
                                Permitted(m_superblock.fst[index], uid, gid, mode))
               /\ parent \in FstIdx =>
                    LET may_write == Permitted(m_superblock.fst[parent], uid, gid, ModeWrite)
                        may_read == Permitted(m_superblock.fst[parent], uid, gid, ModeRead)
                    IN  /\ DeniedIff(CreateFile(Cur, uid, gid, path, 0, AllModes), may_write)
                        /\ DeniedIff(CreateDirectory(Cur, uid, gid, path, 0, AllModes),
                                     may_write)
                        /\ DeniedIff(Delete(Cur, uid, gid, path), may_write)
                        /\ DeniedIff(GetMetadata(Cur, uid, gid, path), may_read)
                        /\ \A new_path \in {PathB, PathAA} :
                             ParentOf(new_path) \in FstIdx =>
                               DeniedIff(Rename(Cur, uid, gid, path, new_path),
                                         may_write
                                           /\ Permitted(m_superblock.fst[ParentOf(new_path)],
                                                        uid, gid, ModeWrite))
      /\ \A path \in PermPaths \cup {RootPath} :
           LET index == GetFstIndex(m_superblock, path) IN
           index \in FstIdx =>
             DeniedIff(ReadDirectory(Cur, uid, gid, path, UBNone),
                       Permitted(m_superblock.fst[index], uid, gid, ModeRead))

\* C19 witness: a caller other than uid 0 was refused by the group bits of a file
\* that its owner may open.
PermissionCheckWitness ==
  /\ ret.op = "OpenFile" /\ ret.rc = AccessDenied
  /\ \E i \in FstIdx :
       /\ IsFile(m_superblock.fst[i])
       /\ GetOwnerMode(m_superblock.fst[i]) # GetGroupMode(m_superblock.fst[i])
       /\ m_superblock.fst[i].uid # 0

\* ------------------------------------------------------------------ claims on Rename
\* What Rename must carry over from the entry at the old path.
Carried(superblock, index) ==
  [uid |-> superblock.fst[index].uid, gid |-> superblock.fst[index].gid,
   attr |-> superblock.fst[index].attr, mode |-> superblock.fst[index].mode,
   size |-> superblock.fst[index].size, x3 |-> superblock.fst[index].x3,
   sub |-> superblock.fst[index].sub,
   chain |-> IF IsFile(superblock.fst[index]) THEN FileChain(superblock, index) ELSE <<>>]
RenamedEntry(old_path, new_path, r) ==
  r.rc = Success =>
    LET index == GetFstIndex(m_superblock, old_path) IN
    /\ index \in FstIdx
    /\ GetFstIndex(r.s.m_superblock, new_path) = index
    /\ Carried(r.s.m_superblock, index) = Carried(m_superblock, index)
    /\ GetFstIndex(r.s.m_superblock, old_path) = NoIndex

\* C20: after a successful Rename(old, new) the entry found at new has the FST index,
\* uid, gid, attribute, mode, size, x3, first child or cluster, and cluster chain of
\* the entry that was at old, and old no longer resolves.
RenamePreservesEntry ==
  Loaded =>
    \A old_path \in TreePaths, new_path \in TreePaths :
      RenamedEntry(old_path, new_path, Rename(Cur, 0, 0, old_path, new_path))

\* ------------------------------------------------------------------ claims on names
\* Two more names of 13 bytes: PathN13o shares its first 12 bytes with PathN13,
\* PathM13 does not.
PathN13o == PathN12 \o <<111>>
PathM13 == <<Slash, 109>> \o SubSeq(PathN13, 3, Len(PathN13))
\* A closed file created under the 13-byte name PathN13 is in the root directory.
LongNamedFile ==
  \E i \in FstIdx :
    /\ i \in Range(FromRoot(m_superblock))
    /\ IsFile(m_superblock.fst[i]) /\ ~IsFileOpened(Cur, i)
    /\ GetName(m_superblock.fst[i]) = SetName(SplitPath(PathN13).file_name)

\* C21: for an existing file whose name is longer than 12 bytes, Rename to a name
\* whose first 12 bytes differ returns Invalid, and Rename to a name with the same
\* first 12 bytes returns Success.
RenamePrefixRule ==
  (Loaded /\ LongNamedFile) =>
    /\ Rename(Cur, 0, 0, PathN13, PathM13).rc = Invalid
    /\ Rename(Cur, 0, 0, PathN13, PathN13o).rc = Success

\* ------------------------------------------------------------------ claims on Rename onto an entry
\* The entries linked as children of directory d, in chain order.
RECURSIVE SibChain(_, _, _)
SibChain(superblock, i, fuel) ==
  IF i >= FstSize \/ fuel = 0 THEN <<>>
  ELSE <<i>> \o SibChain(superblock, superblock.fst[i].sib, fuel - 1)
ChildrenNamed(superblock, d, file_name) ==
  LET children == SibChain(superblock, superblock.fst[d].sub, FstSize + 1)
  IN  {k \in 1 .. Len(children) : GetName(superblock.fst[children[k]]) = file_name}
\* The outcome r of Rename(old_path, new_path) when both paths resolve, to different
\* entries.
RenamedOnto(old_path, new_path, r) ==
  LET before == m_superblock
      after == r.s.m_superblock
      src == GetFstIndex(before, old_path)
      dst == GetFstIndex(before, new_path)
      new_parent == GetFstIndex(before, SplitPath(new_path).parent)
  IN  (src \in FstIdx /\ dst \in FstIdx /\ src # dst) =>
        IF TypeBits(before.fst[src]) # TypeBits(before.fst[dst]) \/ HeldOpen(before, dst)
        THEN r.rc # Success /\ after.fst = before.fst /\ after.fat = before.fat
        ELSE r.rc = Success =>
               LET gone == IF IsDirectory(before.fst[dst]) THEN Subtree(before, dst)
                           ELSE {dst}
               IN  /\ \A i \in gone : TypeBits(after.fst[i]) = 0
                   /\ \A i \in gone :
                        IsFile(before.fst[i]) =>
                          \A c \in ChainClusters(before.fat, before.fst[i].sub, FatSize + 1) :
                            after.fat[c] = CLUSTER_UNUSED
                   /\ GetFstIndex(after, new_path) = src
                   /\ Cardinality(ChildrenNamed(after, new_parent,
                                                SplitPath(new_path).file_name)) = 1

\* C22: when an entry already exists at the new path, Rename fails and changes neither
\* FST nor FAT if that entry has another type than the source or is in use; otherwise
\* a successful Rename has freed the entry, its clusters and its subtree, and the
\* source is the one entry of that name under the new parent.
RenameOntoExisting ==
  Loaded =>
    \A old_path \in TreePaths, new_path \in TreePaths :
      RenamedOnto(old_path, new_path, Rename(Cur, 0, 0, old_path, new_path))

\* ------------------------------------------------------------------ claims on SetMetadata
MetadataPaths == TreePaths \cup {RootPath}
ProbeModes == [owner |-> ModeRead, group |-> ModeWrite, other |-> ModeNone]
\* The outcome r of SetMetadata(caller_uid, path, uid, gid, 1, ProbeModes) on an
\* existing entry.
MetadataSet(caller_uid, path, uid, gid, r) ==
  LET before == m_superblock
      after == r.s.m_superblock
      index == GetFstIndex(before, path)
      e == before.fst[index]
      not_owner == caller_uid # 0 /\ (caller_uid # e.uid \/ uid # e.uid)
  IN  index \in FstIdx =>
        /\ index = 0 => r.rc # Success
        /\ (index # 0 /\ not_owner) => r.rc = AccessDenied
        /\ (index # 0 /\ ~not_owner /\ uid # e.uid /\ IsFile(e) /\ e.size # 0)
             => r.rc = FileNotEmpty
        /\ r.rc \in {Invalid, NotFound, AccessDenied, FileNotEmpty} => r.s = Cur
        /\ r.rc = Success =>
             /\ after.fst[index] =
                  [e EXCEPT !.uid = uid, !.gid = gid, !.attr = 1,
                            !.mode = TypeBits(e) + 64 * ModeRead + 16 * ModeWrite]
             /\ \A i \in FstIdx \ {index} : after.fst[i] = before.fst[i]
             /\ after.fat = before.fat

\* C23: SetMetadata is rejected for the root entry; a caller other than uid 0 gets
\* AccessDenied unless it owns the entry and keeps its uid; changing the uid of a file
\* of non-zero size returns FileNotEmpty; a rejected call changes nothing; a successful
\* one replaces uid, gid, attribute and access modes and leaves type bits, name, size,
\* sub, sib and x3 alone.
SetMetadataPreconditions ==
  Loaded =>
    \A caller_uid \in Callers, path \in MetadataPaths, uid \in {0, 1}, gid \in {0, 1} :
      MetadataSet(caller_uid, path, uid, gid,
                  SetMetadata(Cur, caller_uid, path, uid, gid, 1, ProbeModes))

\* ------------------------------------------------------------------ claims on GetNandStats
FullCluster == [k \in 1 .. ClusterSize |-> 90]
\* The counters add up and none has wrapped below zero.
Accounted(stats) ==
  /\ stats.free_clusters + stats.reserved_clusters + stats.bad_clusters
       + stats.used_clusters = FatSize
  /\ stats.used_inodes + stats.free_inodes = FstSize
  /\ \A n \in {stats.free_clusters, stats.reserved_clusters, stats.bad_clusters,
               stats.used_clusters} : n \in 0 .. FatSize
  /\ stats.used_inodes \in 0 .. FstSize /\ stats.free_inodes \in 0 .. FstSize
\* The used clusters that GetNandStats reports after the write w, when w succeeded.
UsedAfter(w, used) == (w.rc = Success /\ ~w.s.ub) => GetNandStats(w.s).val.used_clusters = used

\* C24: GetNandStats always returns counters with free + reserved + bad + used equal
\* to the number of clusters and used_inodes + free_inodes equal to the number of FST
\* entries, none below zero; and with nothing else in use, writing one full cluster of
\* bytes to a new file gives used_clusters = 1 and one more byte gives 2.
NandStatsAccounting ==
  Loaded =>
    /\ Accounted(GetNandStats(Cur).val)
    /\ GetNandStats(Cur).val.used_clusters = 0 =>
         \A fd \in Fds :
           (m_handles[fd].opened /\ m_handles[fd].file_size = 0
              /\ m_handles[fd].file_offset = 0) =>
             LET Second(w) == UsedAfter(WriteBytesToFile(w.s, fd, <<90>>, UBNone), 2)
                 First(w) == UsedAfter(w, 1) /\ ((w.rc = Success /\ ~w.s.ub) => Second(w))
             IN  First(WriteBytesToFile(Cur, fd, FullCluster, UBNone))

\* The outcome r of a CreateFile or CreateDirectory of a 13-byte name: refused, and
\* the FST is as before.
NameRefused(r) == r.rc # Success /\ r.s.m_superblock.fst = m_superblock.fst
\* The outcome r of a CreateFile or CreateDirectory of a 12-byte name that is not in
\* the root directory yet, with a free FST entry left.
NameAccepted(r) ==
  (/\ ChildrenNamed(m_superblock, 0, SplitPath(PathN12).file_name) = {}
   /\ GetUnusedFstIndex(m_superblock) # NoIndex) => r.rc = Success

\* C25: CreateFile and CreateDirectory accept a path whose final component is 12 bytes
\* long, and reject one whose final component is 13 bytes long without creating an
\* FST entry.
NameLengthBoundary ==
  Loaded =>
    /\ NameAccepted(CreateFile(Cur, 0, 0, PathN12, 0, AllModes))
    /\ NameAccepted(CreateDirectory(Cur, 0, 0, PathN12, 0, AllModes))
    /\ NameRefused(CreateFile(Cur, 0, 0, PathN13, 0, AllModes))
    /\ NameRefused(CreateDirectory(Cur, 0, 0, PathN13, 0, AllModes))

\* Bytes outside 0x21..0x7E, and the one-byte names made of them.
BadBytes == {1, 32, 127, 128, 255}
ValidName(file_name) == \A k \in 1 .. Len(file_name) : file_name[k] \in 33 .. 126
\* The outcome r of a CreateFile or CreateDirectory of a name with a bad byte: Invalid,
\* the FST as before, and every name in use valid.
BadNameRefused(r) ==
  /\ r.rc = Invalid
  /\ r.s.m_superblock.fst = m_superblock.fst
  /\ \A i \in FstIdx \ {0} :
       TypeBits(r.s.m_superblock.fst[i]) # 0 => ValidName(GetName(r.s.m_superblock.fst[i]))

\* C26: CreateFile and CreateDirectory return Invalid and create no entry for a path
\* with a name byte <= 0x20 or > 0x7E, so every name stored in the FST consists of
\* bytes in 0x21..0x7E.
NameCharacters ==
  Loaded =>
    \A c \in BadBytes :
      /\ BadNameRefused(CreateFile(Cur, 0, 0, <<Slash, c>>, 0, AllModes))
      /\ BadNameRefused(CreateDirectory(Cur, 0, 0, <<Slash, 110, c>>, 0, AllModes))

\* ------------------------------------------------------------------ claims on failing I/O
\* This step is a read or write that returned CheckFailed or BadBlock.
FailedTransfer ==
  /\ nops' = nops + 1
  /\ ret'.op \in {"Read", "Write"}
  /\ ret'.rc \in {CheckFailed, BadBlock}

\* C27: a read or write that returns CheckFailed or BadBlock leaves the superblock, the
\* handles (offset and cached size), the identity of the cache, its dirty flag and its
\* buffer as they were before the call.
FailedTransferKeepsState ==
  [][FailedTransfer =>
       UNCHANGED <<m_superblock, m_handles, m_cache_fd, m_cache_chain_index,
                   m_cache_for_write, m_cache_data>>]_vars

\* What an engine started on the backing file of s finds: the superblock copy it loads
\* and the clusters that copy's FAT holds allocated.
DiskView(s) ==
  LET Found(g) ==
        [verified |-> g.val, loaded |-> g.s.m_superblock_set,
         index |-> g.s.m_superblock_index, superblock |-> g.s.m_superblock,
         clusters |-> [c \in FatIdx |->
                         IF g.s.m_superblock_set /\ Allocated(g.s.m_superblock.fat, c)
                         THEN s.m_nand[c] ELSE BlankCluster]]
  IN  Found(GetSuperblock([EngineZero EXCEPT !.m_nand = s.m_nand,
                                             !.m_nand_sb = s.m_nand_sb]))
\* The call with outcome r either succeeded, or failed in its superblock flush, or left
\* the backing file as a newly started engine sees it unchanged.
DiskKept(r) ==
  (r.rc \notin {Success, SuperblockWriteFailed, Crashed} /\ ~r.s.ub)
    => DiskView(r.s) = DiskView(Cur)

\* C28: a public call that fails before its superblock flush leaves the backing file as
\* a newly started engine sees it unchanged: the same superblock copy is loaded, with
\* the same contents, and every cluster it holds allocated has the same bytes.
FailureKeepsDisk ==
  Loaded =>
    /\ \A fd \in Fds :
         /\ DiskKept(WriteBytesToFile(Cur, fd, <<9, 9, 9>>, UBNone))
         /\ DiskKept(ReadBytesFromFile(Cur, fd, 1, UBNone))
         /\ DiskKept(Close(Cur, fd, UBNone))
    /\ DiskKept(CreateFile(Cur, 0, 0, PathA, 0, AllModes))
    /\ DiskKept(Delete(Cur, 0, 0, PathA))
    /\ DiskKept(Rename(Cur, 0, 0, PathA, PathAA))
    /\ DiskKept(OpenFile(Cur, 0, 0, PathA, ModeReadWrite))

\* The error kinds a public call may return.
ErrorKinds ==
  {Invalid, AccessDenied, SuperblockInitFailed, NotFound, AlreadyExists,
   TooManyPathComponents, InUse, BadBlock, NoFreeHandle, NoFreeSpace, FstFull,
   FileNotEmpty, CheckFailed}

\* C29: every result a public call returns is Success or one of the error kinds, and a
\* call whose superblock flush meets a failing backing file returns BadBlock.
ReportedErrors ==
  /\ ~crashed => ret.rc \in {Success} \cup ErrorKinds
  /\ (Loaded /\ IoFails(Cur)) =>
       /\ Format(Cur, 0).rc = BadBlock
       /\ GetFstIndex(m_superblock, PathA) = NoIndex =>
            CreateFile(Cur, 0, 0, PathA, 0, AllModes).rc = BadBlock

\* Handles a and b are open on the same file, a for writing and b for reading, and the
\* Len(x) bytes at a's offset lie below the size b has cached.
SameFileBelowSize(a, b, x) ==
  /\ a # b
  /\ m_handles[a].opened /\ m_handles[b].opened
  /\ m_handles[a].fst_index = m_handles[b].fst_index
  /\ m_handles[a].fst_index < FstSize
  /\ m_handles[a].mode \in {ModeWrite, ModeReadWrite}
  /\ m_handles[b].mode \in {ModeRead, ModeReadWrite}
  /\ m_handles[a].file_offset + Len(x) <= m_handles[b].file_size

\* C30: for two handles a and b open on the same file, whatever reads and writes they
\* have seen, once a write of x through a at an offset o with o + Len(x) no larger than
\* b's cached size has succeeded, seeking b to o and reading Len(x) bytes through b
\* returns x; and when that write flushed no superblock, a newly started engine still
\* finds the backing file as it was before the write.
HandleCoherence ==
  Loaded =>
    \A a \in Fds, b \in Fds, x \in ProbeDatas :
      SameFileBelowSize(a, b, x) =>
        LET o == m_handles[a].file_offset
            w == WriteBytesToFile(Cur, a, x, UBNone)
            sought == SeekFile(w.s, b, o, SeekSet)
            r == ReadBytesFromFile(sought.s, b, Len(x), UBNone)
        IN  (w.rc = Success /\ ~w.s.ub) =>
              /\ sought.rc = Success
              /\ r.rc = Success
              /\ r.val = x
              /\ w.s.m_superblock.version = m_superblock.version
                   => DiskView(w.s) = DiskView(Cur)

\* ------------------------------------------------------------------ FS.cpp
\* CountDirectoryRecursively from entry child of a directory; hang when `fuel` runs out
\* (cyclic FST).  The counters start at 0; the caller adds one inode for the directory.
RECURSIVE CountFrom(_, _, _)
CountFrom(superblock, child, fuel) ==
  LET Rest(own, rest) ==
        [used_clusters |-> (own.used_clusters + rest.used_clusters) % U32,
         used_inodes |-> (own.used_inodes + rest.used_inodes) % U32,
         hang |-> own.hang \/ rest.hang]
      Counted(own) ==
        IF own.hang THEN own
        ELSE Rest(own, CountFrom(superblock, superblock.fst[child].sib, fuel - 1))
      Below(inner) ==
        [used_clusters |-> inner.used_clusters,
         used_inodes |-> (inner.used_inodes + 1) % U32, hang |-> inner.hang]
  IN  IF child >= FstSize THEN [used_clusters |-> 0, used_inodes |-> 0, hang |-> FALSE]
      ELSE IF fuel = 0 THEN [used_clusters |-> 0, used_inodes |-> 0, hang |-> TRUE]
      ELSE Counted(IF IsFile(superblock.fst[child])
                   THEN [used_clusters |->
                           ((superblock.fst[child].size + CLUSTER_DATA_SIZE - 1) % U32)
                             \div CLUSTER_DATA_SIZE,
                         used_inodes |-> 1, hang |-> FALSE]
                   ELSE Below(CountFrom(superblock, superblock.fst[child].sub, fuel - 1)))

CountDirectoryRecursively(superblock, directory) ==
  LET Counted(c) == [used_clusters |-> c.used_clusters,
                     used_inodes |-> (c.used_inodes + 1) % U32, hang |-> c.hang]
  IN  Counted(CountFrom(superblock, superblock.fst[directory].sub, FstSize + 1))

\* GetDirectoryStats: val is [used_clusters, used_inodes].
GetDirectoryStats(s0, path) ==
  LET Counted(s, stats) ==
        IF stats.hang THEN Res(Die(s), Crashed, 0)
        ELSE Res(s, Success, [used_clusters |-> stats.used_clusters,
                              used_inodes |-> stats.used_inodes])
      Found(s, index) ==
        IF index < 0 THEN Res(Die(s), Crashed, 0)
        ELSE IF index = NoIndex THEN Res(s, NotFound, 0)
        ELSE IF ~IsDirectory(s.m_superblock.fst[index]) THEN Res(s, Invalid, 0)
        ELSE Counted(s, CountDirectoryRecursively(s.m_superblock, index))
      WithSuperblock(g) ==
        IF ~g.val \/ path = <<>> THEN Res(g.s, SuperblockInitFailed, 0)
        ELSE IF path[1] # Slash \/ Len(path) > MaxPathLen
        THEN Res(g.s, SuperblockInitFailed, 0)
        ELSE Found(g.s, GetFstIndex(g.s.m_superblock, path))
  IN  WithSuperblock(GetSuperblock(s0))

\* C31: whatever a handle has read and written, once a write of x at its offset o has
\* succeeded, GetMetadata of the file reports a size of at least o + Len(x), a handle
\* opened on the file takes a size of at least o + Len(x), and GetDirectoryStats of the
\* root counts the clusters of o + Len(x) bytes, also while the last written cluster is
\* only in the cache.
MetadataSeesWrites ==
  Loaded =>
    \A fd \in Fds, x \in ProbeDatas :
      (m_handles[fd].opened /\ m_handles[fd].fst_index < FstSize) =>
        LET written == m_handles[fd].file_offset + Len(x)
            w == WriteBytesToFile(Cur, fd, x, UBNone)
            metadata == GetMetadata(w.s, 0, 0, PathA)
            opened == OpenFile(w.s, 0, 0, PathA, ModeRead)
            stats == GetDirectoryStats(w.s, RootPath)
        IN  (w.rc = Success /\ ~w.s.ub) =>
              /\ metadata.rc = Success /\ metadata.val.size >= written
              /\ opened.rc = Success
                   => opened.s.m_handles[opened.val].file_size >= written
              /\ stats.rc = Success
              /\ stats.val.used_clusters
                   >= (written + CLUSTER_DATA_SIZE - 1) \div CLUSTER_DATA_SIZE

\* The flush of chain index k of file f with the bytes `source` and the size new_size
\* follows the copy-on-write sequence: a failed flush leaves FAT and FST as they were; a
\* successful one has written source with its HMAC to a cluster that was UNUSED, made
\* it position k of the chain with every other position as before, and left the
\* cluster it replaced UNUSED and every other FAT entry and FST entry untouched.
CopyOnWrite(f, k, source, new_size) ==
  LET old == FileChain(m_superblock, f)
      Flushed(r) ==
        LET new == FileChain(r.s.m_superblock, f)
            fat == r.s.m_superblock.fat
        IN  IF r.rc # Success
            THEN fat = m_superblock.fat /\ r.s.m_superblock.fst = m_superblock.fst
            ELSE \E cluster \in FatIdx :
                   /\ m_superblock.fat[cluster] = CLUSTER_UNUSED
                   /\ r.s.m_nand[cluster] =
                        [data |-> Encrypt(source),
                         hmac |-> GenerateHmacForData(m_superblock, source, f, k)]
                   /\ Len(new) = IF k < Len(old) THEN Len(old) ELSE Len(old) + 1
                   /\ new[k + 1] = cluster
                   /\ \A j \in 1 .. Len(old) : j # k + 1 => new[j] = old[j]
                   /\ k < Len(old) => fat[old[k + 1]] = CLUSTER_UNUSED
                   /\ \A c \in FatIdx \ ({cluster} \cup {old[j] : j \in {k, k + 1} \cap 1 .. Len(old)}) :
                        fat[c] = m_superblock.fat[c]
                   /\ \A g \in FstIdx \ {f} :
                        r.s.m_superblock.fst[g] = m_superblock.fst[g]
  IN  Flushed(WriteFileData(Cur, f, source, k, new_size))

\* Handle fd owns the dirty cache and names a file entry.
DirtyCacheOf(fd) ==
  /\ m_cache_fd = fd /\ m_cache_for_write
  /\ m_handles[fd].opened /\ m_handles[fd].fst_index < FstSize
  /\ IsFile(m_superblock.fst[m_handles[fd].fst_index])

WalkRevisitsNothing(superblock, i) ==
  \A j \in FstIdx : Occurrences(Traversal(superblock, i, FstSize + 1), j) <= 1

\* C33: once formatted, whatever calls were made, the walk along sub and sib links from
\* any entry in use never meets an entry twice, so no directory is its own child or
\* the child of one of its descendants and every traversal of the FST ends.
FstAcyclic ==
  Loaded =>
    \A i \in FstIdx :
      TypeBits(m_superblock.fst[i]) # 0 => WalkRevisitsNothing(m_superblock, i)

\* The slots after a version overflow: copy (index - j) holds version ExtraVersions - j
\* of the superblock in memory under a valid HMAC, and the copy in use holds version
\* ExtraVersions.
SlotsWrapped ==
  /\ m_superblock_set
  /\ m_superblock.version = ExtraVersions
  /\ \A j \in 0 .. NUMBER_OF_SUPERBLOCKS - 1 :
       LET i == (m_superblock_index - j) % NUMBER_OF_SUPERBLOCKS IN
       /\ m_nand_sb[i].sb = [m_superblock EXCEPT !.version = ExtraVersions - j]
       /\ m_nand_sb[i].hmac = GenerateHmacForSuperblock(m_nand_sb[i].sb, i)

\* An engine started on the image loads the copy in use, with the superblock in memory.
ScanSelectsCurrent ==
  LET Selected(view) ==
        /\ view.verified
        /\ view.index = m_superblock_index
        /\ view.superblock = m_superblock
  IN  Selected(DiskView(Cur))

\* A call whose flush took the version from 2^32 - 1 to 0 has returned Success.
VersionWrapped ==
  /\ m_superblock_set /\ m_superblock_set'
  /\ m_superblock'.version < m_superblock.version
  /\ ret'.rc = Success

SlotAfter(index, j) == (index + j) % NUMBER_OF_SUPERBLOCKS

\* One FlushSuperblock on the engine as it is: the version is raised once; when some
\* slot takes writes the result is Success, the slot in use is the first slot after
\* the old one that takes writes, it holds the superblock with the new version under
\* the HMAC computed for that slot, and no other slot has changed; when none does
\* the result is an error and no slot has changed.
FlushRetried(r) ==
  LET tries == {j \in 1 .. NUMBER_OF_SUPERBLOCKS :
                  ~SlotFails(Cur, SlotAfter(m_superblock_index, j))}
      Written(index) ==
        /\ r.rc = Success
        /\ r.s.m_superblock_index = index
        /\ r.s.m_nand_sb[index] =
             [sb |-> r.s.m_superblock,
              hmac |-> GenerateHmacForSuperblock(r.s.m_superblock, index)]
        /\ \A i \in Slots \ {index} : r.s.m_nand_sb[i] = m_nand_sb[i]
  IN  /\ r.s.m_superblock = [m_superblock EXCEPT !.version = (@ + 1) % U32]
      /\ IF tries = {}
         THEN r.rc # Success /\ r.s.m_nand_sb = m_nand_sb
         ELSE Written(SlotAfter(m_superblock_index,
                                CHOOSE j \in tries : \A k \in tries : j <= k))

\* C35: with any set of superblock copies failing, one FlushSuperblock raises the
\* version exactly once, moves past every slot it cannot write with the same version
\* and an HMAC computed for the slot it tries, returns Success with the slot in use
\* equal to the first slot written, and returns an error only when every one of the
\* NUMBER_OF_SUPERBLOCKS slots has failed.
FlushRetry == Loaded => FlushRetried(FlushSuperblock(Cur))

\* C35 witness: the slot after the one in use fails, a later one takes writes, and the
\* flush succeeds on it.
FlushRetryWitness ==
  /\ Loaded
  /\ SlotAfter(m_superblock_index, 1) \in bad_slots
  /\ bad_slots # Slots
  /\ FlushSuperblock(Cur).rc = Success
  /\ FlushSuperblock(Cur).s.m_superblock_index # SlotAfter(m_superblock_index, 1)

\* An engine started on the backing file of s loads and verifies a superblock whose
\* FAT and FST are those s holds in memory.
ScanFindsMemory(s) ==
  LET Found(view) ==
        /\ view.verified
        /\ view.superblock.fat = s.m_superblock.fat
        /\ view.superblock.fst = s.m_superblock.fst
  IN  Found(DiskView(s))

\* C36: after every successful Format, CreateFile, CreateDirectory, Delete, Rename and
\* SetMetadata, and after the successful Close of any handle whose cache or FAT
\* changes are not flushed yet, a start-up scan of the superblock copies on the
\* backing file selects and verifies a copy whose FAT and FST equal those in memory.
FlushedCopySelected ==
  Loaded =>
    /\ (ret.rc = Success /\ ret.op \in MetadataOps) => ScanFindsMemory(Cur)
    /\ \A fd \in Fds :
         DirtyHandle(fd) =>
           LET c == Close(Cur, fd, UBNone)
           IN  (c.rc = Success /\ ~c.s.ub) => ScanFindsMemory(c.s)

\* C37: whenever the cache is dirty some FAT entry is UNUSED; flushing the cache, by
\* Close or by a read through any handle, never returns NoFreeSpace; and no call
\* other than a write has returned NoFreeSpace.
DirtyCacheHasSpace ==
  Loaded =>
    /\ (m_cache_fd # NoFd /\ m_cache_for_write)
         => \E c \in FatIdx : m_superblock.fat[c] = CLUSTER_UNUSED
    /\ FlushFileCache(Cur, UBNone).rc # NoFreeSpace
    /\ \A fd \in Fds :
         /\ Close(Cur, fd, UBNone).rc # NoFreeSpace
         /\ ReadBytesFromFile(Cur, fd, 1, UBNone).rc # NoFreeSpace
    /\ ret.rc = NoFreeSpace => ret.op = "Write"

\* ------------------------------------------------------------------ claims on sibling names
\* The children of directory d have pairwise different stored names.
UniqueChildren(superblock, d) ==
  LET children == SibChain(superblock, superblock.fst[d].sub, FstSize + 1)
  IN  \A j, k \in 1 .. Len(children) :
        GetName(superblock.fst[children[j]]) = GetName(superblock.fst[children[k]])
          => j = k
\* The outcome r of a create of path, whose parent is the root: AlreadyExists when a
\* child of the root has the name the new entry would store.
DuplicateRefused(path, r) ==
  ChildrenNamed(m_superblock, 0, SetName(SplitPath(path).file_name)) # {}
    => r.rc = AlreadyExists

\* C38: no directory has two children with the same stored name, and a create whose
\* stored name equals that of an existing child returns AlreadyExists.
SiblingNamesUnique ==
  Loaded =>
    /\ \A d \in FstIdx : IsDirectory(m_superblock.fst[d]) => UniqueChildren(m_superblock, d)
    /\ \A path \in NamePaths \cup {PathA, PathB} :
         /\ DuplicateRefused(path, CreateFile(Cur, 0, 0, path, 0, AllModes))
         /\ DuplicateRefused(path, CreateDirectory(Cur, 0, 0, path, 0, AllModes))

\* ------------------------------------------------------------------ claims on files as parents
\* The entry that PathA resolves to is a file.
FileAtA ==
  LET index == GetFstIndex(m_superblock, PathA)
  IN  index \in FstIdx /\ IsFile(m_superblock.fst[index])
\* The outcome r of a call on a path below a file: an error, with FST and FAT as before.
RefusedBelowFile(r) ==
  /\ r.rc # Success
  /\ r.s.m_superblock.fst = m_superblock.fst
  /\ r.s.m_superblock.fat = m_superblock.fat

\* C39: while "/a" is a file, CreateFile, CreateDirectory, Delete, Rename, OpenFile and
\* GetMetadata on "/a/a" fail and leave FST and FAT as they were.
FileIsNoDirectory ==
  (Loaded /\ FileAtA) =>
    /\ RefusedBelowFile(CreateFile(Cur, 0, 0, PathAA, 0, AllModes))
    /\ RefusedBelowFile(CreateDirectory(Cur, 0, 0, PathAA, 0, AllModes))
    /\ RefusedBelowFile(Delete(Cur, 0, 0, PathAA))
    /\ RefusedBelowFile(Rename(Cur, 0, 0, PathAA, PathB))
    /\ RefusedBelowFile(Rename(Cur, 0, 0, PathB, PathAA))
    /\ RefusedBelowFile(OpenFile(Cur, 0, 0, PathAA, ModeRead))
    /\ RefusedBelowFile(GetMetadata(Cur, 0, 0, PathAA))

\* ------------------------------------------------------------------ claims on FileHandle
\* A call this = std::move(other) on objects with different (m_fs, m_fd) is running.
MoveStarted ==
  /\ move_call.state = "running"
  /\ Tie(file_handles[move_call.this]) # Tie(file_handles[move_call.other])
\* The call has returned.
MoveReturned == move_call.state = "returned"
\* this owns the fd that other had at the call and other owns none.
MoveDone ==
  /\ file_handles[move_call.this].m_fd = move_call.moved_fd
  /\ file_handles[move_call.other].m_fd = NoOptFd

\* C40: a move assignment between FileHandle objects with different (filesystem, fd)
\* pairs returns, and when it returns the target owns the fd of the source and the
\* source owns none.
MoveAssignTerminates ==
  /\ MoveStarted ~> MoveReturned
  /\ [][(MoveStarted /\ MoveReturned') => MoveDone']_vars
====
